---- MODULE Spec2Model ----
(***************************************************************************)
(* Polling / cache / refresh subsystem of the dashboard backend:           *)
(*   - rankingController  (getRanking, updateRanking, scheduler)           *)
(*   - empresaController  (getEmpresas, updateEmpresas, scheduler)         *)
(*   - statusController   (getStatusOperadores, updateStatusOperadores,    *)
(*                         resetBackoff, increaseBackoff, scheduler)       *)
(*   - argusService       (fetchArgusData, waitForFetch, resolveQueue)     *)
(*                                                                         *)
(* Node.js runs one event loop: a handler runs without interruption from   *)
(* one await on I/O to the next.  Every action below is one such stretch:  *)
(* the arrival of a request or timer tick up to its first await, or the    *)
(* completion of one awaited I/O call up to the next await (or the end),   *)
(* including the promise continuations that run in the same turn.          *)
(*                                                                         *)
(* The controllers own disjoint module-level state, so the behaviours of   *)
(* the whole process are the interleavings of the behaviours of each       *)
(* controller.  The variable "unit" selects, in the initial state, the     *)
(* controller whose behaviours are explored, and "mode" the deployment:    *)
(* "http" is the process without schedulers (DISABLE_SCHEDULERS=true, or   *)
(* server.js imported as a module) serving the public GET routes, "sched"  *)
(* adds the schedulers, "admin" adds the refresh and debug routes, "idle"  *)
(* is the process with schedulers that receives no request.                *)
(***************************************************************************)
EXTENDS Integers, Sequences, FiniteSets, TLC

----------------------------------------------------------------------------
(* Bounds of the exploration *)

\* promises of refresh executions alive at once
MaxRuns == 2
\* HTTP GET requests pending at once
MaxReqs == 2
\* HTTP GET requests pending at once while the admin routes are in use
MaxAdminReqs == 1
\* clock advances in one behaviour
MaxTicks == 2
\* milliseconds the clock advances at once where the cache lives 15 s
ShortTickMs == 7500
\* milliseconds the clock advances at once where the cache lives 60 s
LongTickMs == 30000
\* Date.now() when the process starts
Epoch == 100000
\* milliseconds after the start up to which backoffs are waited for
MaxBackoffMs == 1080000
\* fetchArgusForRamal calls under way at once
MaxCalls == 2

----------------------------------------------------------------------------
(* Program constants *)

\* rankingController CACHE_MS (RANKING_CACHE_MS default)
RANKING_CACHE_MS == 15000
DEFAULT_EMPRESA == "VIEIRACRED"
\* values of req.query.empresa
Empresas == {"VIEIRACRED"}

\* JavaScript null / undefined
Null == "null"
\* fetchPromise: null
NoPromise == 0
\* the empty array []
EmptyArr == "[]"
\* non-empty ranking row sets the sales database can yield
Rankings == {"R1", "R2"}
\* non-empty lists of empresas the colaboradores table can yield
EmpresaLists == {"E1", "E2"}
\* empresaController CACHE_MS (EMPRESA_CACHE_MS default)
EMPRESA_CACHE_MS == 60000
\* statusController STATUS_CACHE_MS default
STATUS_CACHE_MS == 15000
\* payloads getStatusOperadores can build from the tables
StatusPayloads == {"S1", "S2"}
\* { operadores: [], totalActive: 0, logados: 0, logados_total: 0 }
StatusDefault == "default"
\* TOKEN_ARGUS is configured
ARGUS_TOKEN == TRUE
\* increaseBackoff: cap of failCount, first delay and longest delay in seconds
MaxFailCount == 6
BackoffBaseSec == 15
BackoffCapSec == 300
\* argusService CACHE_DURATION (ARGUS_CACHE_MS default) and MAX_RETRIES default
ARGUS_CACHE_MS == 15000
MAX_RETRIES == 3
\* statusController ARGUS_RETRY and ARGUS_RETRY_DELAY_MS defaults
ARGUS_RETRY == 2
ARGUS_RETRY_DELAY_MS == 400
\* answers of the Argus API
ArgusPayloads == {"A1", "A2"}
\* tables whose columns detectColumns caches
TABELA_COLAB == "dbo.colaboradores"
TABELA_STATUS == "dbo.status_operador"
\* what detectColumns can return: a set with id_argus / ramal, or one without
\* (the empty set it returns when the query fails included)
ColumnSets == {"id", "noid"}

Runs == 1..MaxRuns
Reqs == 1..(IF MaxReqs >= MaxAdminReqs THEN MaxReqs ELSE MaxAdminReqs)
Calls == 1..MaxCalls

VARIABLES
  unit,             \* controller explored in this behaviour
  mode,             \* "http", "sched", "admin" or "idle"
  now,              \* Date.now()
  runs,             \* refresh executions: promise id -> position and locals
  reqs,             \* HTTP GET requests awaiting a promise
  resp,             \* HTTP responses sent by the last step
  rankingCacheMap,  \* rankingController: Map empresa -> {data, ts, isFetching, fetchPromise}
  saves,            \* saveRankingToTable calls running in the background
  persisted,        \* dbo.ranking_operador rows of today, per empresa
  empresasCache,    \* empresaController: {data, ts, isFetching, fetchPromise}
  state,            \* statusController: cache, isFetching, failCount, nextAllowedAt, ...
  delaySec,         \* delaySec of the last increaseBackoff since the last resetBackoff
  argus,            \* argusService: isFetching, queue, the request under way, its cache entry
  fetch,            \* statusController: the fetchArgusForRamal call under way
  call              \* the arguments and the result of a function called on its own

vars == <<unit, mode, now, runs, reqs, resp, rankingCacheMap, saves, persisted,
          empresasCache, state, delaySec, argus, fetch, call>>

\* what the ranking controller owns, and what it never touches
rankingVars == <<rankingCacheMap, saves, persisted>>
statusVars == <<state, delaySec>>
notRanking == <<empresasCache, statusVars, argus, fetch, call>>
\* what the empresa controller never touches
notEmpresas == <<rankingVars, statusVars, argus, fetch, call>>
\* what the status controller never touches
notStatus == <<rankingVars, empresasCache, argus, fetch, call>>
\* what argusService never touches
notArgus == <<rankingVars, empresasCache, statusVars, runs, reqs, fetch, call>>
\* what fetchArgusForRamal never touches (of state it writes _argusAuthFailed)
notFetch == <<rankingVars, empresasCache, delaySec, argus, runs, reqs, call>>
\* what a function called on its own never touches
notCall == <<rankingVars, empresasCache, statusVars, argus, runs, reqs, fetch>>

----------------------------------------------------------------------------
(* JavaScript helpers *)

\* truthiness of a value that is null or an array: every array, [] included, is truthy
Truthy(x) == x # Null

\* a || b
OrElse(a, b) == IF Truthy(a) THEN a ELSE b

\* the freshness test with the comparison turned around
IsFresh_inverted(entry, t, ttl) == Truthy(entry.data) /\ (t - entry.ts) > ttl

\* cache.data && (now - cache.ts) < CACHE_MS
IsFresh(entry, t, ttl) == Truthy(entry.data) /\ (t - entry.ts) < ttl

\* Map.prototype.set
MapSet(m, k, v) == [x \in (DOMAIN m) \cup {k} |-> IF x = k THEN v ELSE m[x]]

\* new Map() / Map.prototype.clear
EmptyMap == [x \in {} |-> Null]

----------------------------------------------------------------------------
(* Processes *)

\* a promise id not in use
IdleRun == [pc |-> "idle", key |-> Null, origin |-> Null, result |-> Null, rows |-> Null,
            colabCols |-> Null, statusCols |-> Null]
\* a request slot not in use
NewReq == [pc |-> "new", key |-> Null, run |-> NoPromise, kind |-> Null, seen |-> Null,
           t |-> 0]

\* the promise id the next refresh execution gets
FreeRuns == {r \in Runs : runs[r].pc = "idle"}
NextRun == CHOOSE r \in FreeRuns : \A q \in FreeRuns : r <= q

\* the slot the next pending HTTP request gets
FreeReqs ==
  IF Cardinality({h \in Reqs : reqs[h].pc # "new"})
       < (IF mode = "admin" THEN MaxAdminReqs ELSE MaxReqs)
  THEN {h \in Reqs : reqs[h].pc = "new"}
  ELSE {}
NextReq == CHOOSE h \in FreeReqs : \A j \in FreeReqs : h <= j

\* res.json(body) of a request: HTTP 200
Response(req, body) ==
  [key |-> req.key, kind |-> req.kind, run |-> req.run, code |-> 200, body |-> body]

\* the catch of the route: res.status(500).json({ error })
RouteError(req) ==
  [key |-> req.key, kind |-> req.kind, run |-> req.run, code |-> 500, body |-> "error"]

\* a call that is no HTTP request returned value: what its caller sees
Returned(r, origin, value) ==
  [key |-> origin, kind |-> "return", run |-> r, code |-> 0, body |-> value]

\* a settled promise is dropped once no cache entry holds it
SettledRun(r, out, held) ==
  IF held THEN [runs[r] EXCEPT !.pc = "done", !.result = out, !.rows = Null]
  ELSE IdleRun

----------------------------------------------------------------------------
(* rankingController *)

RankingEntry(data, ts, isFetching, fetchPromise) ==
  [data |-> data, ts |-> ts, isFetching |-> isFetching, fetchPromise |-> fetchPromise]

\* getRanking, after "await p" / "await cache.fetchPromise": the body of res.json(...)
RankingResponseBody(req, out) ==
  IF req.kind = "own" THEN OrElse(out, EmptyArr)
  ELSE OrElse(out, OrElse(req.seen, EmptyArr))

\* the promise of getRanking without its finally
RankingFinally_absent(r, m) == m

\* the finally of the promise getRanking creates: clears the entry now in the map
RankingFinally(r, m) ==
  LET key == runs[r].key IN
  IF runs[r].origin = "http" /\ key \in DOMAIN m
  THEN [m EXCEPT ![key].isFetching = FALSE, ![key].fetchPromise = NoPromise]
  ELSE m

\* updateRanking returns out having left the map as m: the promise settles and
\* every getRanking awaiting it responds
RankingSettle(r, out, m) ==
  LET m2 == RankingFinally(r, m)
      waiting == {h \in Reqs : reqs[h].pc = "waiting" /\ reqs[h].run = r}
  IN /\ rankingCacheMap' = m2
     /\ runs' = [runs EXCEPT ![r] =
                   SettledRun(r, out, \E k \in DOMAIN m2 : m2[k].fetchPromise = r)]
     /\ reqs' = [h \in Reqs |-> IF h \in waiting THEN NewReq ELSE reqs[h]]
     /\ resp' = {Response(reqs[h], RankingResponseBody(reqs[h], out)) : h \in waiting}

\* updateRanking, outer catch
RankingCatch(r) ==
  LET key == runs[r].key
      has == key \in DOMAIN rankingCacheMap
      m1  == IF has THEN [rankingCacheMap EXCEPT ![key].isFetching = FALSE]
             ELSE rankingCacheMap
  IN IF has /\ Truthy(rankingCacheMap[key].data)
     THEN RankingSettle(r, rankingCacheMap[key].data, m1)
     ELSE /\ rankingCacheMap' = m1
          /\ runs' = [runs EXCEPT ![r].pc = "persistedOuter"]
          /\ resp' = {}
          /\ UNCHANGED reqs

\* updateRanking: the three places that cache and return an empty ranking
RankingStoreEmpty(r) ==
  RankingSettle(r, EmptyArr,
                MapSet(rankingCacheMap, runs[r].key,
                       RankingEntry(EmptyArr, now, FALSE, NoPromise)))

\* updateRanking: await getLocalPool() returned or threw
RankingPoolDone(r, ok) ==
  /\ unit = "ranking"
  /\ runs[r].pc = "pool"
  /\ IF ok
     THEN /\ runs' = [runs EXCEPT ![r].pc = "vend"]
          /\ resp' = {}
          /\ UNCHANGED <<rankingCacheMap, reqs>>
     ELSE RankingCatch(r)
  /\ UNCHANGED <<notRanking, unit, mode, now, saves, persisted>>

\* updateRanking: the vendedores query returned rows, returned none, or threw
RankingVendDone(r, outcome) ==
  /\ unit = "ranking"
  /\ runs[r].pc = "vend"
  /\ CASE outcome = "rows"  -> /\ runs' = [runs EXCEPT ![r].pc = "sales"]
                               /\ resp' = {}
                               /\ UNCHANGED <<rankingCacheMap, reqs>>
       [] outcome = "empty" -> RankingStoreEmpty(r)
       [] OTHER             -> RankingCatch(r)
  /\ UNCHANGED <<notRanking, unit, mode, now, saves, persisted>>

\* updateRanking: getSalesTodayForVendedorIds threw, found no sale today, or
\* returned the day's totals (outcome is then the ranking they sort into)
RankingSalesDone(r, outcome) ==
  /\ unit = "ranking"
  /\ runs[r].pc = "sales"
  /\ CASE outcome = "fail"  -> /\ runs' = [runs EXCEPT ![r].pc = "persistedInner"]
                               /\ resp' = {}
                               /\ UNCHANGED <<rankingCacheMap, reqs>>
       [] outcome = "empty" -> RankingStoreEmpty(r)
       [] OTHER             -> /\ runs' = [runs EXCEPT ![r].pc = "fotos", ![r].rows = outcome]
                               /\ resp' = {}
                               /\ UNCHANGED <<rankingCacheMap, reqs>>
  /\ UNCHANGED <<notRanking, unit, mode, now, saves, persisted>>

\* updateRanking: getFotosMap returned (a failure only leaves the photos out);
\* the result is handed to saveRankingToTable in the background, cached and returned
RankingFotosDone(r) ==
  /\ unit = "ranking"
  /\ runs[r].pc = "fotos"
  /\ saves' = saves \cup {[key |-> runs[r].key, rows |-> runs[r].rows]}
  /\ RankingSettle(r, runs[r].rows,
                   MapSet(rankingCacheMap, runs[r].key,
                          RankingEntry(runs[r].rows, now, FALSE, NoPromise)))
  /\ UNCHANGED <<notRanking, unit, mode, now, persisted>>

\* getRankingFromTable: today's persisted rows, [] when the read fails
RankingFromTable(key, readOk) == IF readOk THEN persisted[key] ELSE EmptyArr

\* updateRanking, catch around the sales read: what it returns once
\* getRankingFromTable gave rows
RankingSalesFallback(key, rows) ==
  IF rows # EmptyArr THEN rows
  ELSE IF key \in DOMAIN rankingCacheMap /\ Truthy(rankingCacheMap[key].data)
  THEN rankingCacheMap[key].data
  ELSE EmptyArr

\* updateRanking, catch around the sales read: await getRankingFromTable(key) returned
RankingPersistedInnerDone(r, readOk) ==
  /\ unit = "ranking"
  /\ runs[r].pc = "persistedInner"
  /\ RankingSettle(r, RankingSalesFallback(runs[r].key,
                                           RankingFromTable(runs[r].key, readOk)),
                   rankingCacheMap)
  /\ UNCHANGED <<notRanking, unit, mode, now, saves, persisted>>

\* updateRanking, outer catch without cached data: await getRankingFromTable returned
RankingPersistedOuterDone(r, readOk) ==
  LET rows == RankingFromTable(runs[r].key, readOk)
  IN /\ unit = "ranking"
     /\ runs[r].pc = "persistedOuter"
     /\ RankingSettle(r, IF rows # EmptyArr THEN rows ELSE EmptyArr, rankingCacheMap)
     /\ UNCHANGED <<notRanking, unit, mode, now, saves, persisted>>

\* saveRankingToTable committed its transaction: today's rows are replaced
RankingSaveCommit(s) ==
  /\ unit = "ranking"
  /\ s \in saves
  /\ persisted' = [persisted EXCEPT ![s.key] = s.rows]
  /\ saves' = saves \ {s}
  /\ resp' = {}
  /\ UNCHANGED <<notRanking, unit, mode, now, runs, reqs, rankingCacheMap>>

\* a failure of the save that takes the cached entry of its empresa away
RankingSaveFail_evicts(s) ==
  /\ unit = "ranking"
  /\ s \in saves
  /\ saves' = saves \ {s}
  /\ rankingCacheMap' = [k \in (DOMAIN rankingCacheMap) \ {s.key} |-> rankingCacheMap[k]]
  /\ resp' = {}
  /\ UNCHANGED <<notRanking, unit, mode, now, runs, reqs, persisted>>

\* saveRankingToTable failed (pool unavailable or query error): nothing is replaced
RankingSaveFail(s) ==
  /\ unit = "ranking"
  /\ s \in saves
  /\ saves' = saves \ {s}
  /\ resp' = {}
  /\ UNCHANGED <<notRanking, unit, mode, now, runs, reqs, rankingCacheMap, persisted>>

\* a refresh execution starts: updateRanking(key) runs up to await getLocalPool()
RankingStart(r, key, origin) ==
  [runs EXCEPT ![r] = [IdleRun EXCEPT !.pc = "pool", !.key = key, !.origin = origin]]

\* getRanking: the cached answer is fresh
GetRankingHit(key) ==
  /\ key \in DOMAIN rankingCacheMap
  /\ IsFresh(rankingCacheMap[key], now, RANKING_CACHE_MS)
  /\ resp' = {Response([NewReq EXCEPT !.key = key, !.kind = "hit"],
                       rankingCacheMap[key].data)}
  /\ UNCHANGED <<runs, reqs, rankingCacheMap>>

\* getRanking: a refresh is in flight, await its promise
GetRankingJoin(key) ==
  LET cache == rankingCacheMap[key]
      p == cache.fetchPromise
      w == [NewReq EXCEPT !.key = key, !.kind = "join", !.run = p,
                          !.seen = cache.data, !.pc = "waiting"]
  IN /\ key \in DOMAIN rankingCacheMap
     /\ ~IsFresh(cache, now, RANKING_CACHE_MS)
     /\ cache.isFetching /\ cache.fetchPromise # NoPromise
     /\ FreeReqs # {}
     /\ IF runs[p].pc = "done"
        THEN \* the promise is settled already: the await returns at once
             /\ resp' = {Response([w EXCEPT !.kind = "replay"],
                                  RankingResponseBody(w, runs[p].result))}
             /\ UNCHANGED reqs
        ELSE /\ reqs' = [reqs EXCEPT ![NextReq] = w]
             /\ resp' = {}
     /\ UNCHANGED <<runs, rankingCacheMap>>

\* getRanking: start a refresh, store its promise in the map, await it
GetRankingOwn(key) ==
  LET has == key \in DOMAIN rankingCacheMap IN
  /\ has => /\ ~IsFresh(rankingCacheMap[key], now, RANKING_CACHE_MS)
            /\ ~(rankingCacheMap[key].isFetching
                 /\ rankingCacheMap[key].fetchPromise # NoPromise)
  /\ FreeReqs # {} /\ FreeRuns # {}
  /\ runs' = RankingStart(NextRun, key, "http")
  /\ rankingCacheMap' =
       MapSet(rankingCacheMap, key,
              RankingEntry(IF has THEN rankingCacheMap[key].data ELSE Null,
                           IF has THEN rankingCacheMap[key].ts ELSE 0,
                           TRUE, NextRun))
  /\ reqs' = [reqs EXCEPT ![NextReq] =
                [NewReq EXCEPT !.key = key, !.kind = "own", !.run = NextRun,
                               !.seen = IF has THEN rankingCacheMap[key].data ELSE Null,
                               !.pc = "waiting"]]
  /\ resp' = {}

\* GET /api/ranking?empresa=key
GetRanking(key) ==
  /\ unit = "ranking"
  /\ \/ GetRankingHit(key)
     \/ GetRankingJoin(key)
     \/ GetRankingOwn(key)
  /\ UNCHANGED <<notRanking, unit, mode, now, saves, persisted>>

\* scheduleRankingUpdater: the immediate call and every setInterval tick
RankingSchedulerTick ==
  /\ unit = "ranking"
  /\ mode = "sched"
  /\ FreeRuns # {}
  /\ runs' = RankingStart(NextRun, DEFAULT_EMPRESA, "sched")
  /\ resp' = {}
  /\ UNCHANGED <<notRanking, unit, mode, now, reqs, rankingCacheMap, saves, persisted>>

\* POST /api/ranking/refresh: awaits updateRanking()
RankingRefreshRoute ==
  /\ unit = "ranking"
  /\ mode = "admin"
  /\ FreeRuns # {}
  /\ runs' = RankingStart(NextRun, DEFAULT_EMPRESA, "route")
  /\ resp' = {}
  /\ UNCHANGED <<notRanking, unit, mode, now, reqs, rankingCacheMap, saves, persisted>>

\* POST /_debug/clear-caches, ranking part: map.clear()
RankingClearCaches ==
  /\ unit = "ranking"
  /\ mode = "admin"
  /\ rankingCacheMap' = EmptyMap
  /\ runs' = [r \in Runs |-> IF runs[r].pc = "done" THEN IdleRun ELSE runs[r]]
  /\ resp' = {}
  /\ UNCHANGED <<notRanking, unit, mode, now, reqs, saves, persisted>>

RankingNext ==
  \/ \E key \in Empresas : GetRanking(key)
  \/ \E r \in Runs, ok \in BOOLEAN : RankingPoolDone(r, ok)
  \/ \E r \in Runs, outcome \in {"rows", "empty", "fail"} : RankingVendDone(r, outcome)
  \/ \E r \in Runs, outcome \in {"fail", "empty"} \cup Rankings : RankingSalesDone(r, outcome)
  \/ \E r \in Runs : RankingFotosDone(r)
  \/ \E r \in Runs, ok \in BOOLEAN : RankingPersistedInnerDone(r, ok)
  \/ \E r \in Runs, ok \in BOOLEAN : RankingPersistedOuterDone(r, ok)
  \/ \E s \in saves : RankingSaveCommit(s)
  \/ \E s \in saves : RankingSaveFail(s)
  \/ RankingSchedulerTick
  \/ RankingRefreshRoute
  \/ RankingClearCaches

----------------------------------------------------------------------------
(* empresaController *)

\* a settled promise is forgotten once empresasCache.fetchPromise is another one
EmpresasForget(rs, cache) ==
  [r \in Runs |-> IF rs[r].pc = "done" /\ cache.fetchPromise # r THEN IdleRun ELSE rs[r]]

\* getEmpresas, after the await: the body of res.json(...)
EmpresasResponseBody(req, out, cache) ==
  IF req.kind = "own" THEN out
  ELSE OrElse(out, OrElse(cache.data, EmptyArr))

\* updateEmpresas returns out having left the cache as c: the promise settles
\* and every getEmpresas awaiting it responds
EmpresasSettle(r, out, c) ==
  LET waiting == {h \in Reqs : reqs[h].pc = "waiting" /\ reqs[h].run = r}
  IN /\ empresasCache' = c
     /\ runs' = EmpresasForget([runs EXCEPT ![r] = SettledRun(r, out, TRUE)], c)
     /\ reqs' = [h \in Reqs |-> IF h \in waiting THEN NewReq ELSE reqs[h]]
     /\ resp' = {Response(reqs[h], EmpresasResponseBody(reqs[h], out, c)) : h \in waiting}

\* updateEmpresas, catch: isFetching is cleared, the last cached list is returned
EmpresasCatch(r) ==
  EmpresasSettle(r,
                 IF empresasCache.data # Null THEN empresasCache.data ELSE EmptyArr,
                 [empresasCache EXCEPT !.isFetching = FALSE])

\* updateEmpresas: await getLocalPool() returned a pool, or threw / returned none
EmpresasPoolDone(r, ok) ==
  /\ unit = "empresas"
  /\ runs[r].pc = "pool"
  /\ IF ok
     THEN /\ runs' = [runs EXCEPT ![r].pc = "query"]
          /\ resp' = {}
          /\ UNCHANGED <<empresasCache, reqs>>
     ELSE EmpresasCatch(r)
  /\ UNCHANGED <<notEmpresas, unit, mode, now>>

\* updateEmpresas: the SELECT DISTINCT returned a list or threw
EmpresasQueryDone(r, outcome) ==
  /\ unit = "empresas"
  /\ runs[r].pc = "query"
  /\ IF outcome = "fail"
     THEN EmpresasCatch(r)
     ELSE EmpresasSettle(r, outcome,
                         [data |-> outcome, ts |-> now,
                          isFetching |-> FALSE, fetchPromise |-> NoPromise])
  /\ UNCHANGED <<notEmpresas, unit, mode, now>>

\* a refresh execution starts: updateEmpresas() runs up to await getLocalPool()
EmpresasStart(r, origin) ==
  [runs EXCEPT ![r] = [IdleRun EXCEPT !.pc = "pool", !.origin = origin]]

\* getEmpresas: the cached list is fresh
GetEmpresasHit ==
  /\ IsFresh(empresasCache, now, EMPRESA_CACHE_MS)
  /\ resp' = {Response([NewReq EXCEPT !.kind = "hit"], empresasCache.data)}
  /\ UNCHANGED <<runs, reqs, empresasCache>>

\* getEmpresas: another request is fetching, await its promise
GetEmpresasJoin ==
  LET p == empresasCache.fetchPromise
      w == [NewReq EXCEPT !.kind = "join", !.run = p, !.pc = "waiting"]
  IN /\ ~IsFresh(empresasCache, now, EMPRESA_CACHE_MS)
     /\ empresasCache.isFetching /\ p # NoPromise
     /\ FreeReqs # {}
     /\ IF runs[p].pc = "done"
        THEN \* the promise is settled already: the await returns at once
             /\ resp' = {Response([w EXCEPT !.kind = "replay"],
                                  EmpresasResponseBody(w, runs[p].result, empresasCache))}
             /\ UNCHANGED reqs
        ELSE /\ reqs' = [reqs EXCEPT ![NextReq] = w]
             /\ resp' = {}
     /\ UNCHANGED <<runs, empresasCache>>

\* getEmpresas: start a refresh, keep its promise for concurrent requests, await it
GetEmpresasOwn ==
  LET c == [empresasCache EXCEPT !.isFetching = TRUE, !.fetchPromise = NextRun]
  IN /\ ~IsFresh(empresasCache, now, EMPRESA_CACHE_MS)
     /\ ~(empresasCache.isFetching /\ empresasCache.fetchPromise # NoPromise)
     /\ FreeReqs # {} /\ FreeRuns # {}
     /\ empresasCache' = c
     /\ runs' = EmpresasForget(EmpresasStart(NextRun, "http"), c)
     /\ reqs' = [reqs EXCEPT ![NextReq] =
                   [NewReq EXCEPT !.kind = "own", !.run = NextRun, !.pc = "waiting"]]
     /\ resp' = {}

\* GET /api/empresas
GetEmpresas ==
  /\ unit = "empresas"
  /\ \/ GetEmpresasHit
     \/ GetEmpresasJoin
     \/ GetEmpresasOwn
  /\ UNCHANGED <<notEmpresas, unit, mode, now>>

\* scheduleEmpresasUpdater: the immediate call and every setInterval tick
EmpresasSchedulerTick ==
  /\ unit = "empresas"
  /\ mode = "sched"
  /\ FreeRuns # {}
  /\ runs' = EmpresasStart(NextRun, "sched")
  /\ resp' = {}
  /\ UNCHANGED <<notEmpresas, unit, mode, now, reqs, empresasCache>>

\* POST /api/empresas/refresh: awaits updateEmpresas()
EmpresasRefreshRoute ==
  /\ unit = "empresas"
  /\ mode = "admin"
  /\ FreeRuns # {}
  /\ runs' = EmpresasStart(NextRun, "route")
  /\ resp' = {}
  /\ UNCHANGED <<notEmpresas, unit, mode, now, reqs, empresasCache>>

\* POST /_debug/clear-caches, empresas part, and POST /_debug/empresas-clear
EmpresasClearCaches ==
  LET c == [data |-> Null, ts |-> 0, isFetching |-> FALSE, fetchPromise |-> NoPromise]
  IN /\ unit = "empresas"
     /\ mode = "admin"
     /\ empresasCache' = c
     /\ runs' = EmpresasForget(runs, c)
     /\ resp' = {}
     /\ UNCHANGED <<notEmpresas, unit, mode, now, reqs>>

EmpresasNext ==
  \/ GetEmpresas
  \/ \E r \in Runs, ok \in BOOLEAN : EmpresasPoolDone(r, ok)
  \/ \E r \in Runs, outcome \in {"fail", EmptyArr} \cup EmpresaLists : EmpresasQueryDone(r, outcome)
  \/ EmpresasSchedulerTick
  \/ EmpresasRefreshRoute
  \/ EmpresasClearCaches

----------------------------------------------------------------------------
(* statusController *)

RECURSIVE Pow2(_)
\* Math.pow(2, n) for n >= 0
Pow2(n) == IF n <= 0 THEN 1 ELSE 2 * Pow2(n - 1)

Min(a, b) == IF a <= b THEN a ELSE b

\* ms(s)
Ms(sec) == sec * 1000

\* the reset that leaves nextAllowedAt as it is
ResetBackoff_countOnly(st) == [st EXCEPT !.failCount = 0]

\* resetBackoff
ResetBackoff(st) == [st EXCEPT !.failCount = 0, !.nextAllowedAt = 0]

\* increaseBackoff: the failCount it sets
IncreasedFailCount(st) == Min(st.failCount + 1, MaxFailCount)

\* the delay without its cap
BackoffDelaySec_uncapped(failCount) == BackoffBaseSec * Pow2(failCount - 1)

\* increaseBackoff: delaySec
BackoffDelaySec(failCount) == Min(BackoffBaseSec * Pow2(failCount - 1), BackoffCapSec)

\* the delay computed from failCount before it is incremented
IncreaseBackoff_stale(st) ==
  [st EXCEPT !.failCount = IncreasedFailCount(st),
             !.nextAllowedAt = now + Ms(BackoffDelaySec(st.failCount))]

\* increaseBackoff
IncreaseBackoff(st) ==
  [st EXCEPT !.failCount = IncreasedFailCount(st),
             !.nextAllowedAt = now + Ms(BackoffDelaySec(IncreasedFailCount(st)))]

\* the guards without the one on nextAllowedAt
StatusCanStart_nobackoff(st) ==
  /\ ~st.isFetching
  /\ ARGUS_TOKEN
  /\ ~st.argusAuthFailed

\* updateStatusOperadores: none of the four guards before "isFetching = true" returns
StatusCanStart(st) ==
  /\ ~(now < st.nextAllowedAt)
  /\ ~st.isFetching
  /\ ARGUS_TOKEN
  /\ ~st.argusAuthFailed

\* updateStatusOperadores: the reason of the skip
StatusSkipReason(st) ==
  IF now < st.nextAllowedAt THEN "skipped:backoff"
  ELSE IF st.isFetching THEN "skipped:in-flight"
  ELSE IF ~ARGUS_TOKEN THEN "skipped:no-token"
  ELSE "skipped:argus-auth-failed"

\* updateStatusOperadores(): it returns skipped, or sets isFetching and runs up to
\* await getLocalPool(); st is the controller state it finds
StatusUpdateCall(st, origin) ==
  IF StatusCanStart(st)
  THEN /\ FreeRuns # {}
       /\ state' = [st EXCEPT !.isFetching = TRUE]
       /\ runs' = [runs EXCEPT ![NextRun] =
                     [IdleRun EXCEPT !.pc = "pool", !.origin = origin]]
  ELSE /\ state' = st
       /\ UNCHANGED runs

\* updateStatusOperadores returns value, after the finally, from state st
StatusReturn(r, st, value) ==
  /\ state' = [st EXCEPT !.isFetching = FALSE]
  /\ runs' = [runs EXCEPT ![r] = IdleRun]
  /\ resp' = {Returned(r, runs[r].origin, value)}

\* updateStatusOperadores, catch: increaseBackoff, the latch when the text of
\* the error holds "403", then the finally
StatusCatch(r) ==
  /\ delaySec' = BackoffDelaySec(IncreasedFailCount(state))
  /\ \E has403 \in BOOLEAN :
       StatusReturn(r, [IncreaseBackoff(state) EXCEPT !.argusAuthFailed = @ \/ has403],
                    "error")

\* updateStatusOperadores, both column sets known: colaboradores without
\* id_argus / ramal ends the run, otherwise the ramais are queried
StatusColsKnown(r, st, colab, status) ==
  IF colab = "noid"
  THEN /\ delaySec' = 0
       /\ StatusReturn(r, ResetBackoff(st), "updated:0")
  ELSE /\ state' = st
       /\ runs' = [runs EXCEPT ![r].pc = "ramais", ![r].colabCols = colab,
                               ![r].statusCols = status]
       /\ resp' = {}
       /\ UNCHANGED delaySec

\* updateStatusOperadores, colabCols known: detectColumns(pool, TABELA_STATUS)
\* answers from _colsCache or queries INFORMATION_SCHEMA
StatusColabKnown(r, st, colab) ==
  IF st.colsCache[TABELA_STATUS] # Null
  THEN StatusColsKnown(r, st, colab, st.colsCache[TABELA_STATUS])
  ELSE /\ state' = st
       /\ runs' = [runs EXCEPT ![r].pc = "statusCols", ![r].colabCols = colab]
       /\ resp' = {}
       /\ UNCHANGED delaySec

\* updateStatusOperadores: await getLocalPool() returned a pool, or threw / returned none
StatusPoolDone(r, ok) ==
  /\ unit = "status"
  /\ runs[r].pc = "pool"
  /\ IF ~ok THEN StatusCatch(r)
     ELSE IF state.colsCache[TABELA_COLAB] # Null
     THEN StatusColabKnown(r, state, state.colsCache[TABELA_COLAB])
     ELSE /\ runs' = [runs EXCEPT ![r].pc = "colabCols"]
          /\ resp' = {}
          /\ UNCHANGED <<state, delaySec>>
  /\ UNCHANGED <<notStatus, unit, mode, now, reqs>>

\* updateStatusOperadores: the column query of detectColumns(pool, TABELA_COLAB) ended
StatusColabColsDone(r, cols) ==
  /\ unit = "status"
  /\ runs[r].pc = "colabCols"
  /\ StatusColabKnown(r, [state EXCEPT !.colsCache[TABELA_COLAB] = cols], cols)
  /\ UNCHANGED <<notStatus, unit, mode, now, reqs>>

\* updateStatusOperadores: the column query of detectColumns(pool, TABELA_STATUS) ended
StatusStatusColsDone(r, cols) ==
  /\ unit = "status"
  /\ runs[r].pc = "statusCols"
  /\ StatusColsKnown(r, [state EXCEPT !.colsCache[TABELA_STATUS] = cols],
                     runs[r].colabCols, cols)
  /\ UNCHANGED <<notStatus, unit, mode, now, reqs>>

\* updateStatusOperadores: the ramais query threw, found no ramal, or found some
StatusRamaisDone(r, outcome) ==
  /\ unit = "status"
  /\ runs[r].pc = "ramais"
  /\ CASE outcome = "fail"  -> StatusCatch(r)
       [] outcome = "empty" -> /\ delaySec' = 0
                               /\ StatusReturn(r, ResetBackoff(state), "updated:0")
       [] OTHER             -> /\ runs' = [runs EXCEPT ![r].pc = "argus"]
                               /\ resp' = {}
                               /\ UNCHANGED <<state, delaySec>>
  /\ UNCHANGED <<notStatus, unit, mode, now, reqs>>

\* updateStatusOperadores: processBatch over fetchArgusForRamal ended; it never
\* throws; a 403 answer latched _argusAuthFailed; updates tells whether any
\* ramal got a status
StatusArgusDone(r, updates, forbidden) ==
  LET st == [state EXCEPT !.argusAuthFailed = @ \/ forbidden] IN
  /\ unit = "status"
  /\ runs[r].pc = "argus"
  /\ IF ~updates
     THEN /\ delaySec' = 0
          /\ StatusReturn(r, ResetBackoff(st), "updated:0")
     ELSE IF runs[r].statusCols = "noid"
     THEN \* status_operador without id_argus / ramal
          /\ StatusReturn(r, st, "warning")
          /\ UNCHANGED delaySec
     ELSE /\ state' = st
          /\ runs' = [runs EXCEPT ![r].pc = "upsert"]
          /\ resp' = {}
          /\ UNCHANGED delaySec
  /\ UNCHANGED <<notStatus, unit, mode, now, reqs>>

\* updateStatusOperadores: the upsert loop ended (each upsert catches its own
\* failure): the cache is invalidated and the backoff reset; a GET whose
\* queries are under way at that moment is noted as such in its seen field
\* (a record of the history, nothing in the code reads it)
StatusUpsertDone(r) ==
  /\ unit = "status"
  /\ runs[r].pc = "upsert"
  /\ delaySec' = 0
  /\ StatusReturn(r, ResetBackoff([state EXCEPT !.cache = [data |-> Null, ts |-> 0]]),
                  "updated")
  /\ reqs' = [h \in Reqs |-> IF reqs[h].pc = "query"
                              THEN [reqs[h] EXCEPT !.seen = "invalidated"]
                              ELSE reqs[h]]
  /\ UNCHANGED <<notStatus, unit, mode, now>>

\* getStatusOperadores, catch: the cached payload, or the empty default, with 200
StatusGetCatchBody(st) == IF Truthy(st.cache.data) THEN st.cache.data ELSE StatusDefault

\* getStatusOperadores, catch
StatusGetCatch(h) ==
  /\ resp' = {Response(reqs[h], StatusGetCatchBody(state))}
  /\ reqs' = [reqs EXCEPT ![h] = NewReq]
  /\ UNCHANGED <<state, runs>>

\* getStatusOperadores, colabCols known: detectColumns(pool, TABELA_STATUS)
\* answers from _colsCache or queries INFORMATION_SCHEMA
StatusGetColabKnown(h, st) ==
  /\ state' = st
  /\ reqs' = [reqs EXCEPT ![h].pc =
                IF st.colsCache[TABELA_STATUS] # Null THEN "query" ELSE "statusCols"]
  /\ resp' = {}
  /\ UNCHANGED runs

\* GET /api/status-operadores: fresh cache answers, otherwise await getLocalPool()
GetStatusOperadores ==
  /\ unit = "status"
  /\ mode # "idle"
  /\ IF IsFresh(state.cache, now, STATUS_CACHE_MS)
     THEN /\ resp' = {Response([NewReq EXCEPT !.kind = "hit"], state.cache.data)}
          /\ UNCHANGED reqs
     ELSE /\ FreeReqs # {}
          /\ reqs' = [reqs EXCEPT ![NextReq] =
                        [NewReq EXCEPT !.kind = "read", !.pc = "pool", !.t = now]]
          /\ resp' = {}
  /\ UNCHANGED <<notStatus, statusVars, unit, mode, now, runs>>

\* getStatusOperadores: await getLocalPool() returned a pool, or threw / returned none
GetStatusPoolDone(h, ok) ==
  /\ unit = "status"
  /\ reqs[h].pc = "pool"
  /\ IF ~ok THEN StatusGetCatch(h)
     ELSE IF state.colsCache[TABELA_COLAB] # Null
     THEN StatusGetColabKnown(h, state)
     ELSE /\ reqs' = [reqs EXCEPT ![h].pc = "colabCols"]
          /\ resp' = {}
          /\ UNCHANGED <<state, runs>>
  /\ UNCHANGED <<notStatus, delaySec, unit, mode, now>>

\* getStatusOperadores: the column query of detectColumns(pool, TABELA_COLAB) ended
GetStatusColabColsDone(h, cols) ==
  /\ unit = "status"
  /\ reqs[h].pc = "colabCols"
  /\ StatusGetColabKnown(h, [state EXCEPT !.colsCache[TABELA_COLAB] = cols])
  /\ UNCHANGED <<notStatus, delaySec, unit, mode, now>>

\* getStatusOperadores: the column query of detectColumns(pool, TABELA_STATUS) ended
GetStatusStatusColsDone(h, cols) ==
  /\ unit = "status"
  /\ reqs[h].pc = "statusCols"
  /\ state' = [state EXCEPT !.colsCache[TABELA_STATUS] = cols]
  /\ reqs' = [reqs EXCEPT ![h].pc = "query"]
  /\ resp' = {}
  /\ UNCHANGED <<notStatus, delaySec, unit, mode, now, runs>>

\* getStatusOperadores: the queries ended (the two counts catch their own
\* failures; the main query threw or gave the rows of payload): the payload is
\* cached under the time the request started, updateStatusOperadores() is
\* called without await, the payload is sent
GetStatusQueryDone(h, outcome) ==
  /\ unit = "status"
  /\ reqs[h].pc = "query"
  /\ IF outcome = "fail"
     THEN StatusGetCatch(h)
     ELSE /\ StatusUpdateCall([state EXCEPT !.cache = [data |-> outcome, ts |-> reqs[h].t]],
                              "get")
          /\ reqs' = [reqs EXCEPT ![h] = NewReq]
          /\ resp' = {Response(reqs[h], outcome)}
  /\ UNCHANGED <<notStatus, delaySec, unit, mode, now>>

\* scheduleStatusUpdater: the immediate call, and the setInterval tick, which
\* returns at once while a refresh is in flight or the backoff is running
StatusSchedulerTick ==
  /\ unit = "status"
  /\ mode \in {"sched", "idle"}
  /\ StatusUpdateCall(state, "sched")
  /\ resp' = IF StatusCanStart(state) THEN {}
             ELSE {Returned(NoPromise, "sched", StatusSkipReason(state))}
  /\ UNCHANGED <<notStatus, delaySec, unit, mode, now, reqs>>

\* POST /api/status/refresh: awaits updateStatusOperadores()
StatusRefreshRoute ==
  /\ unit = "status"
  /\ mode = "admin"
  /\ StatusUpdateCall(state, "route")
  /\ resp' = IF StatusCanStart(state) THEN {}
             ELSE {Returned(NoPromise, "route", StatusSkipReason(state))}
  /\ UNCHANGED <<notStatus, delaySec, unit, mode, now, reqs>>

\* POST /_debug/status-clear and POST /_debug/clear-caches, status part: the
\* reference they get is the state object, whose isFetching they clear (data,
\* timestamp and fetchPromise are no fields the controller reads)
StatusDebugClear ==
  /\ unit = "status"
  /\ mode = "admin"
  /\ state' = [state EXCEPT !.isFetching = FALSE]
  /\ resp' = {}
  /\ UNCHANGED <<notStatus, delaySec, unit, mode, now, runs, reqs>>

\* time passes until the backoff is over, in a process nobody sends requests to
StatusBackoffElapses ==
  /\ unit = "status"
  /\ mode = "idle"
  /\ now < state.nextAllowedAt
  /\ state.nextAllowedAt <= Epoch + MaxBackoffMs
  /\ now' = state.nextAllowedAt
  /\ resp' = {}
  /\ UNCHANGED <<notStatus, statusVars, unit, mode, runs, reqs>>

\* the steps of updateStatusOperadores and of its scheduler
StatusUpdaterNext ==
  \/ \E r \in Runs, ok \in BOOLEAN : StatusPoolDone(r, ok)
  \/ \E r \in Runs, cols \in ColumnSets : StatusColabColsDone(r, cols)
  \/ \E r \in Runs, cols \in ColumnSets : StatusStatusColsDone(r, cols)
  \/ \E r \in Runs, outcome \in {"fail", "empty", "rows"} : StatusRamaisDone(r, outcome)
  \/ \E r \in Runs, updates \in BOOLEAN, forbidden \in BOOLEAN : StatusArgusDone(r, updates, forbidden)
  \/ \E r \in Runs : StatusUpsertDone(r)
  \/ StatusSchedulerTick
  \/ StatusBackoffElapses

StatusNext ==
  \/ GetStatusOperadores
  \/ \E h \in Reqs, ok \in BOOLEAN : GetStatusPoolDone(h, ok)
  \/ \E h \in Reqs, cols \in ColumnSets : GetStatusColabColsDone(h, cols)
  \/ \E h \in Reqs, cols \in ColumnSets : GetStatusStatusColsDone(h, cols)
  \/ \E h \in Reqs, outcome \in {"fail"} \cup StatusPayloads : GetStatusQueryDone(h, outcome)
  \/ StatusUpdaterNext
  \/ StatusRefreshRoute
  \/ StatusDebugClear

----------------------------------------------------------------------------
(* cacheService and argusService *)

\* the Map of CacheService holds no entry under the key
NoEntry == [value |-> Null, expiresAt |-> 0]

\* CacheService.get, the value: null when there is no entry or it has expired
CacheGet(entry, t) == IF entry = NoEntry \/ t > entry.expiresAt THEN Null ELSE entry.value

\* CacheService.get, the entry it leaves: an expired entry is deleted
CacheAfterGet(entry, t) == IF entry # NoEntry /\ t > entry.expiresAt THEN NoEntry ELSE entry

\* CacheService.set
CacheSet(value, ttl, t) == [value |-> value, expiresAt |-> t + ttl]

\* the queue settled for its first caller only
ResolveQueue_first(n, outcome) == {Returned(i, "queued", outcome) : i \in 1..Min(n, 1)}

\* resolveQueue: every queued caller is settled with the outcome
ResolveQueue(n, outcome) == {Returned(i, "queued", outcome) : i \in 1..n}

\* fetchArgusData(force): the cached answer, or the queue while a fetch is under
\* way, or the fetch itself, up to the first axios.get
FetchArgusData(force) ==
  LET cached == CacheGet(argus.cache, now)
      a == [argus EXCEPT !.cache = CacheAfterGet(argus.cache, now)]
  IN /\ unit = "argus"
     /\ IF cached # Null /\ ~force
        THEN /\ argus' = a
             /\ resp' = {Returned(0, "cached", cached)}
        ELSE IF a.isFetching
        THEN /\ a.queue < MaxReqs
             /\ argus' = [a EXCEPT !.queue = @ + 1]
             /\ resp' = {}
        ELSE /\ argus' = [a EXCEPT !.isFetching = TRUE, !.pc = "request", !.attempt = 1]
             /\ resp' = {}
     /\ UNCHANGED <<notArgus, unit, mode, now>>

\* requestArgusData: axios.get answered with data, or failed (error, empty
\* answer, codStatus other than 1); fetchArgusData then resolves the queue and
\* clears isFetching in the same turn, before any queued caller resumes
ArgusRequestDone(outcome) ==
  /\ unit = "argus"
  /\ argus.pc = "request"
  /\ IF outcome # "fail"
     THEN /\ argus' = [argus EXCEPT !.cache = CacheSet(outcome, ARGUS_CACHE_MS, now),
                                    !.isFetching = FALSE, !.pc = "idle", !.attempt = 0,
                                    !.queue = 0]
          /\ resp' = {Returned(0, "own", outcome)} \cup ResolveQueue(argus.queue, outcome)
     ELSE IF argus.attempt < MAX_RETRIES
     THEN /\ argus' = [argus EXCEPT !.pc = "delay"]
          /\ resp' = {}
     ELSE /\ argus' = [argus EXCEPT !.isFetching = FALSE, !.pc = "idle", !.attempt = 0,
                                    !.queue = 0]
          /\ resp' = {Returned(0, "own", "error")} \cup ResolveQueue(argus.queue, "error")
  /\ UNCHANGED <<notArgus, unit, mode, now>>

\* requestArgusData: the delay before the next attempt is over
ArgusDelayDone ==
  /\ unit = "argus"
  /\ argus.pc = "delay"
  /\ argus' = [argus EXCEPT !.pc = "request", !.attempt = @ + 1]
  /\ resp' = {}
  /\ UNCHANGED <<notArgus, unit, mode, now>>

ArgusNext ==
  \/ \E force \in BOOLEAN : FetchArgusData(force)
  \/ \E outcome \in {"fail"} \cup ArgusPayloads : ArgusRequestDone(outcome)
  \/ ArgusDelayDone

----------------------------------------------------------------------------
(* statusController: fetchArgusForRamal *)

\* what axios.get can yield with validateStatus: () => true: an HTTP answer
\* (status, and for cod: "nodata" for an empty body, "absent" for a body
\* without codStatus, otherwise the codStatus of the body), or an exception
\* (status 0: a network error or a timeout)
FetchAnswers ==
  {[status |-> 200, cod |-> c] : c \in {"nodata", "absent", "0", "1", "2"}}
    \cup {[status |-> s, cod |-> "nodata"] : s \in {400, 403, 404, 500, 503}}
    \cup {[status |-> 0, cod |-> c] : c \in {"error", "timeout"}}

\* a call slot not in use
IdleFetch == [pc |-> "idle", attempt |-> 0, requests |-> 0, waits |-> <<>>, result |-> Null]

\* fetchArgusForRamal returns value
FetchReturn(c, f, st, value) ==
  /\ fetch' = [fetch EXCEPT ![c] = [f EXCEPT !.pc = "idle", !.result = value]]
  /\ state' = st
  /\ resp' = {Returned(c, "fetch", value)}

\* the sleep without the attempt number
FetchRetryDelayMs_flat(attempt) == ARGUS_RETRY_DELAY_MS

\* the sleep before the next attempt, when there is one
FetchRetryDelayMs(attempt) == ARGUS_RETRY_DELAY_MS * (attempt + 1)

\* await sleep(ARGUS_RETRY_DELAY_MS * (attempt + 1)) begins
FetchSleep(c, f) ==
  /\ fetch' = [fetch EXCEPT ![c] = [f EXCEPT !.pc = "sleep",
                                             !.waits = Append(@, FetchRetryDelayMs(f.attempt))]]
  /\ resp' = {}
  /\ UNCHANGED state

\* the guards without the one on _argusAuthFailed
FetchSkips_nolatch(ramal, st) == ~ARGUS_TOKEN \/ ramal = ""

\* fetchArgusForRamal: one of the two guards returns null
FetchSkips(ramal, st) == ~ARGUS_TOKEN \/ ramal = "" \/ st.argusAuthFailed

\* fetchArgusForRamal(ramal): the guards, then the first axios.get
FetchArgusForRamal(c, ramal) ==
  /\ unit = "fetch"
  /\ fetch[c].pc = "idle"
  /\ IF FetchSkips(ramal, state)
     THEN FetchReturn(c, IdleFetch, state, Null)
     ELSE /\ fetch' = [fetch EXCEPT ![c] = [IdleFetch EXCEPT !.pc = "request"]]
          /\ resp' = {}
          /\ UNCHANGED state
  /\ UNCHANGED <<notFetch, unit, mode, now>>

\* fetchArgusForRamal: axios.get answered or threw
FetchAxiosDone(c, a) ==
  LET f == [fetch[c] EXCEPT !.requests = @ + 1]
      last == ~(f.attempt < ARGUS_RETRY)
  IN /\ unit = "fetch"
     /\ fetch[c].pc = "request"
     /\ IF a.status = 0
        THEN \* catch (err)
             IF last THEN FetchReturn(c, f, state, Null) ELSE FetchSleep(c, f)
        ELSE IF a.status = 200 /\ a.cod # "nodata"
        THEN IF a.cod \notin {"absent", "0"} /\ a.cod # "1"
             THEN FetchReturn(c, f, state, Null)
             ELSE FetchReturn(c, f, state, "status")
        ELSE IF a.status = 403
        THEN FetchReturn(c, f, [state EXCEPT !.argusAuthFailed = TRUE], Null)
        ELSE IF a.status = 400
        THEN FetchReturn(c, f, state, Null)
        ELSE \* 5xx, and every other answer: sleep and go on while attempts are left
             IF last THEN FetchReturn(c, f, state, Null) ELSE FetchSleep(c, f)
     /\ UNCHANGED <<notFetch, unit, mode, now>>

\* fetchArgusForRamal: the sleep is over, the loop goes to its next attempt
FetchSleepDone(c) ==
  /\ unit = "fetch"
  /\ fetch[c].pc = "sleep"
  /\ fetch' = [fetch EXCEPT ![c].pc = "request", ![c].attempt = @ + 1]
  /\ resp' = {}
  /\ UNCHANGED <<notFetch, state, unit, mode, now>>

FetchNext ==
  \/ \E c \in Calls, ramal \in {"", "1001"} : FetchArgusForRamal(c, ramal)
  \/ \E c \in Calls, a \in FetchAnswers : FetchAxiosDone(c, a)
  \/ \E c \in Calls : FetchSleepDone(c)

----------------------------------------------------------------------------
(* Functions called on their own *)

\* no function is called on its own in this behaviour
NoCall == [out |-> "none"]

\* column names as detectColumns stores them (lowercased), the candidate
\* names the callers of findFirst pass, and the longest candidate list explored
ColumnNames == {"status", "ativo", "situacao", "status_id"}
CandidateNames == {"Status", "status", "ativo", "situacao", "id_argus"}
MaxCandidates == 3

\* String.prototype.toLowerCase over the names explored: the candidates that
\* are not lowercase already, all others are
ToLowerCase(name) ==
  CASE name = "Status"          -> "status"
    [] name = "Nome"            -> "nome"
    [] name = "Nome_Front"      -> "nome_front"
    [] name = "descricaoStatus" -> "descricaostatus"
    [] name = "updatedAt"       -> "updatedat"
    [] name = "tempoStatus"     -> "tempostatus"
    [] OTHER                    -> name

\* the sequences over S of length n, and of length up to n
RECURSIVE SeqsOfLen(_, _)
SeqsOfLen(S, n) ==
  IF n = 0 THEN {<<>>}
  ELSE {Append(q, x) : q \in SeqsOfLen(S, n - 1), x \in S}
SeqsUpTo(S, n) == UNION {SeqsOfLen(S, k) : k \in 0..n}

\* the last candidate that matches instead of the first
RECURSIVE FindFirst_last(_, _)
FindFirst_last(colsSet, candidates) ==
  IF candidates = <<>> THEN Null
  ELSE IF ToLowerCase(candidates[Len(candidates)]) \in colsSet
  THEN candidates[Len(candidates)]
  ELSE FindFirst_last(colsSet, SubSeq(candidates, 1, Len(candidates) - 1))

\* findFirst(colsSet, candidates): the for loop
RECURSIVE FindFirst(_, _)
FindFirst(colsSet, candidates) ==
  IF candidates = <<>> THEN Null
  ELSE IF ToLowerCase(Head(candidates)) \in colsSet THEN Head(candidates)
  ELSE FindFirst(colsSet, Tail(candidates))

\* the columns of dbo.colaboradores and of dbo.status_operador explored, as
\* detectColumns stores them
ColabColumnNames == {"id_argus", "ramal", "empresa", "status", "nome"}
StatusColumnNames == {"id_argus", "ramal", "empresa", "nome", "tempostatus"}

\* a reference alias.[candidate] of a query; SQL Server matches the name
\* without regard to case
Ref(alias, candidate) == <<alias, ToLowerCase(candidate)>>
OptRef(alias, found) == IF found = Null THEN {} ELSE {Ref(alias, found)}

\* getStatusOperadores: statusCandidates and foundStatusCol
StatusCandidates ==
  <<"Status", "status", "ativo", "is_active", "situacao", "situacao_id", "ativo_flag",
    "status_id", "ativo_int", "status_col">>
FoundStatusCol(colabCols) == FindFirst(colabCols, StatusCandidates)

\* getStatusOperadores: tempoCol; updateStatusOperadores: tempoDest
TempoCol(statusCols) ==
  IF "tempostatus" \in statusCols THEN "tempoStatus"
  ELSE IF "tempo_status" \in statusCols THEN "tempo_status"
  ELSE IF "tempo_status_segundos" \in statusCols THEN "tempo_status_segundos"
  ELSE Null

\* getStatusOperadores: the count of active collaborators, built when
\* foundStatusCol is set
GetCountQuery(colabCols) ==
  [from |-> {"c"},
   refs |-> (IF "empresa" \in colabCols THEN {Ref("c", "empresa")} ELSE {})
              \cup OptRef("c", FoundStatusCol(colabCols))]

\* getStatusOperadores: the query of the operators: FROM with or without the
\* JOIN, WHERE, the SELECT parts and the ORDER BY (which repeats nome and equipe)
GetMainQuery(colabCols, statusCols) ==
  LET idArgusStatus  == FindFirst(statusCols, <<"id_argus", "ramal">>)
      idArgusColab   == FindFirst(colabCols, <<"id_argus", "ramal">>)
      colabNomeFront == FindFirst(colabCols, <<"Nome_Front", "nome_front", "nomefront">>)
      colabNome      == FindFirst(colabCols, <<"Nome", "nome", "name">>)
      colabEquipe    == FindFirst(colabCols, <<"equipe", "team", "grupo">>)
      statusNome     == FindFirst(statusCols, <<"nome", "nome_front", "name">>)
      statusEquipe   == FindFirst(statusCols, <<"equipe", "team">>)
      descCol        == FindFirst(statusCols, <<"descricaoStatus", "status_operador",
                                                "descricao_status", "status">>)
      updatedAtCol   == FindFirst(statusCols, <<"updated_at", "updatedat", "updatedAt",
                                                "data_update">>)
      colabIdNew     == FindFirst(colabCols, <<"id_new", "usuario_id">>)
      statusIdNew    == FindFirst(statusCols, <<"id_new", "usuario_id">>)
      statusEmpresa  == FindFirst(statusCols, <<"empresa">>)
      found          == FoundStatusCol(colabCols)
      join           == idArgusStatus # Null /\ idArgusColab # Null
      onRefs   == IF join THEN {Ref("s", idArgusStatus), Ref("c", idArgusColab)} ELSE {}
      whereRefs ==
        IF join
        THEN IF found # Null /\ "empresa" \in colabCols
             THEN {Ref("c", found), Ref("c", "empresa")}
             ELSE IF "empresa" \in colabCols THEN {Ref("c", "empresa")}
             ELSE OptRef("s", statusEmpresa)
        ELSE OptRef("s", statusEmpresa)
      selectRefs ==
        OptRef("s", idArgusStatus)
          \cup OptRef("c", colabIdNew) \cup OptRef("s", statusIdNew)
          \cup OptRef("c", colabNomeFront) \cup OptRef("c", colabNome)
          \cup OptRef("s", statusNome)
          \cup OptRef("c", colabEquipe) \cup OptRef("s", statusEquipe)
          \cup OptRef("s", descCol) \cup OptRef("s", TempoCol(statusCols))
          \cup OptRef("s", updatedAtCol)
  IN [from |-> IF join THEN {"s", "c"} ELSE {"s"},
      refs |-> onRefs \cup whereRefs \cup selectRefs]

\* getStatusOperadores: the count of logados in the database is built
GetLogadosInDb(colabCols, statusCols) ==
  /\ FindFirst(statusCols, <<"id_argus", "ramal">>) # Null
  /\ FindFirst(colabCols, <<"id_argus", "ramal">>) # Null
  /\ FoundStatusCol(colabCols) # Null

\* getStatusOperadores: the count of logados (LOG_EQUIPES empty by default)
GetLogadosQuery(colabCols, statusCols) ==
  [from |-> {"s", "c"},
   refs |-> {Ref("s", FindFirst(statusCols, <<"id_argus", "ramal">>)),
             Ref("c", FindFirst(colabCols, <<"id_argus", "ramal">>)),
             Ref("c", FoundStatusCol(colabCols)),
             Ref("c", "empresa")}]

\* updateStatusOperadores: the guard that ends the run without a query
UpdateSkipsRamais(colabCols) == "id_argus" \notin colabCols /\ "ramal" \notin colabCols

\* updateStatusOperadores: the query of the ramais
UpdateRamaisQuery(colabCols) ==
  LET idNewCandidate == IF "id_new" \in colabCols THEN "id_new"
                        ELSE IF "usuario_id" \in colabCols THEN "usuario_id" ELSE Null
  IN [from |-> {"c"},
      refs |-> {Ref("c", "id_argus")} \cup OptRef("c", idNewCandidate)
                 \cup (IF "empresa" \in colabCols THEN {Ref("c", "empresa")} ELSE {})]

\* updateStatusOperadores: the UPDATE and the INSERT of one ramal, built when
\* idArgusDest is set
UpdateUpsertQuery(statusCols) ==
  [from |-> {"s"},
   refs |-> OptRef("s", FindFirst(statusCols, <<"descricaoStatus", "status_operador",
                                                "descricao_status", "status">>))
              \cup OptRef("s", TempoCol(statusCols))
              \cup OptRef("s", FindFirst(statusCols, <<"id_new", "usuario_id">>))
              \cup OptRef("s", FindFirst(statusCols, <<"empresa">>))
              \cup OptRef("s", FindFirst(statusCols, <<"updated_at", "updatedat",
                                                       "updatedAt">>))
              \cup OptRef("s", FindFirst(statusCols, <<"id_argus", "ramal">>))]

\* the database accepts a query: every reference names a table of the FROM and
\* a column that table has
QueryValid(q, colabCols, statusCols) ==
  \A r \in q.refs :
    /\ r[1] \in q.from
    /\ r[2] \in (IF r[1] = "c" THEN colabCols ELSE statusCols)

\* what getStatusOperadores and updateStatusOperadores come to over tables
\* with these columns, the database failing no query it can accept
StatusQueriesOutcome(colabCols, statusCols) ==
  [totalActive |->
     IF FoundStatusCol(colabCols) = Null THEN "zero"
     ELSE IF QueryValid(GetCountQuery(colabCols), colabCols, statusCols) THEN "counted"
     ELSE "zero",
   get |->
     IF QueryValid(GetMainQuery(colabCols, statusCols), colabCols, statusCols)
     THEN "payload" ELSE "throws",
   logados |->
     IF GetLogadosInDb(colabCols, statusCols)
          /\ QueryValid(GetLogadosQuery(colabCols, statusCols), colabCols, statusCols)
     THEN "counted" ELSE "in-memory",
   update |->
     IF UpdateSkipsRamais(colabCols) THEN "updated:0"
     ELSE IF ~QueryValid(UpdateRamaisQuery(colabCols), colabCols, statusCols) THEN "throws"
     ELSE IF FindFirst(statusCols, <<"id_argus", "ramal">>) = Null THEN "warning"
     ELSE IF QueryValid(UpdateUpsertQuery(statusCols), colabCols, statusCols) THEN "updated"
     ELSE "upsert-skipped"]

\* the most entries of a sales map explored, and the amounts summed for a seller
MaxSellers == 6
Amounts == 0..2

\* the sales maps explored, in insertion order; the seller's id is the place
\* of its first row
SalesMaps ==
  UNION {[1..n -> Amounts] : n \in 0..MaxSellers}

\* updateRanking: allRows, the entries of salesMap in insertion order
AllRows(salesMap) ==
  [i \in 1..Len(salesMap) |-> [id |-> i, valorVendido |-> salesMap[i]]]

\* a row put before the rows it ties with
InsertRow_beforeTies(sorted, row) ==
  LET before == {i \in 1..Len(sorted) : sorted[i].valorVendido > row.valorVendido}
      n == Cardinality(before)
  IN SubSeq(sorted, 1, n) \o <<row>> \o SubSeq(sorted, n + 1, Len(sorted))

\* Array.prototype.sort with (a, b) => b.valorVendido - a.valorVendido, one
\* row at a time: the sort is stable, a row goes after the rows the comparator
\* does not put behind it
InsertRow(sorted, row) ==
  LET before == {i \in 1..Len(sorted) : ~(row.valorVendido - sorted[i].valorVendido > 0)}
      n == Cardinality(before)
  IN SubSeq(sorted, 1, n) \o <<row>> \o SubSeq(sorted, n + 1, Len(sorted))

RECURSIVE SortRows(_)
\* updateRanking: allRows.sort(...)
SortRows(rows) ==
  IF rows = <<>> THEN <<>>
  ELSE InsertRow(SortRows(SubSeq(rows, 1, Len(rows) - 1)), rows[Len(rows)])

\* updateRanking: parseFloat(r.valorVendido) || 0 over the numbers of the map
ParseFloatOrZero(valor) == IF valor = 0 THEN 0 ELSE valor

\* updateRanking: topRows = allRows.slice(0, 5) and the result built from them
RankingResult(salesMap) ==
  LET sorted  == SortRows(AllRows(salesMap))
      topRows == SubSeq(sorted, 1, Min(5, Len(sorted)))
  IN [idx \in 1..Len(topRows) |->
        [id |-> topRows[idx].id,
         valorVendido |-> ParseFloatOrZero(topRows[idx].valorVendido),
         posicao |-> idx]]

\* the most rows of a ranking persisted at once that are explored
MaxSavedRows == 2

\* the rows of an empresa in dbo.ranking_operador, and the rows of a ranking
SavedRows == SeqsUpTo({"v1", "v2"}, MaxSavedRows)

\* the keys, the lifetimes, the clock and the number of operations explored
\* for a CacheService
CacheKeys == {"a", "b"}
CacheTtls == {1, 2}
MaxCacheTime == 3
MaxCacheOps == 4

\* CacheService.has
CacheHas(entry, t) == entry # NoEntry /\ t < entry.expiresAt

\* CacheService.cleanup: the sweep leaves the entry in the Map
CacheCleanupKeeps(entry, t) == ~(entry.expiresAt <= t)

\* this.cache.size
CacheSize(c) == Cardinality({k \in DOMAIN c : c[k] # NoEntry})

\* new CacheService(): the Map, the metrics; beside them the clock and the
\* operations done so far (calls of get and set, entries taken out of the Map)
NewCacheService ==
  [cache |-> [k \in CacheKeys |-> NoEntry],
   metrics |-> [hits |-> 0, misses |-> 0, sets |-> 0, deletes |-> 0, size |-> 0],
   t |-> 0, ops |-> 0, gets |-> 0, setCalls |-> 0, removed |-> 0, out |-> "unset"]

\* the cache-clear, cache-inspection and forced-refresh routes, each with the
\* router whose requireDebugAuth stands before its handler ("none": no
\* middleware before the handler)
AdminRoutes ==
  {[route |-> "POST /api/ranking/refresh",   auth |-> "rankingRoutes"],
   [route |-> "GET /_debug/ranking-cache",   auth |-> "rankingRoutes"],
   [route |-> "POST /_debug/ranking-clear",  auth |-> "rankingRoutes"],
   [route |-> "POST /api/status/refresh",    auth |-> "statusRoutes"],
   [route |-> "GET /_debug/status-cache",    auth |-> "statusRoutes"],
   [route |-> "POST /_debug/status-clear",   auth |-> "statusRoutes"],
   [route |-> "POST /_debug/clear-caches",   auth |-> "debugRoutes"],
   [route |-> "POST /api/empresas/refresh",  auth |-> "none"],
   [route |-> "GET /_debug/empresas-cache",  auth |-> "empresaRoutes"],
   [route |-> "POST /_debug/empresas-clear", auth |-> "empresaRoutes"],
   [route |-> "GET /api/_cache-info",        auth |-> "none"],
   [route |-> "DELETE /api/_cache-clear",    auth |-> "none"]}

\* process.env.DEBUG_TOKEN || null
DebugTokens == {Null, "secret"}

\* what a request carries in x-debug-token, in ?debug_token and in Authorization
AdminRequests ==
  [xDebugToken : {Null, "wrong", "secret"},
   queryToken : {Null, "secret"},
   authorization : {Null, "secret", "Bearer secret"}]

\* requireDebugAuth: the token it reads from the request
DebugAuthToken(auth, req) ==
  OrElse(req.xDebugToken,
         OrElse(req.queryToken, IF auth = "statusRoutes" THEN req.authorization ELSE Null))

\* requireDebugAuth: next() is called
RequireDebugAuth(auth, debugToken, req) ==
  LET token == DebugAuthToken(auth, req) IN
  \/ auth = "none"
  \/ ~Truthy(debugToken)
  \/ /\ Truthy(token)
     /\ \/ token = debugToken
        \/ auth = "statusRoutes" /\ token = "Bearer " \o debugToken

\* the most operators of a status payload explored
MaxOperators == 3

\* norm(op.descricaoStatus), told by the words of the patterns it holds
StatusTexts ==
  {{}, {"atendimento"}, {"chamada"}, {"pausa"}, {"livre"}, {"pausa", "atendimento"}}

\* STATUS_CONFIG[i].match over a normalized text
StatusConfigMatch(i, txt) ==
  CASE i = 0 -> txt \cap {"atendimento", "chamada", "ligacao", "ocupado", "falando"} # {}
    [] i = 1 -> "pausa" \in txt
    [] i = 2 -> txt \cap {"livre", "disponivel"} # {}

\* operadores.filter((op) => STATUS_CONFIG[i].match(norm(op.descricaoStatus))).length
GroupLength(i, operadores) ==
  Cardinality({n \in 1..Len(operadores) : StatusConfigMatch(i, operadores[n])})

\* DashboardSemaforo: logadosCalc
LogadosCalc(operadores) ==
  GroupLength(0, operadores) + GroupLength(1, operadores) + GroupLength(2, operadores)

\* DashboardSemaforo: logadosBase; apiLogados is logados_total || logados || 0
LogadosBase(operadores, apiLogados) ==
  IF LogadosCalc(operadores) > 0 THEN LogadosCalc(operadores) ELSE apiLogados

\* Math.round(n / d * 100) for n >= 0 and d > 0: halves go up
RoundPercent(n, d) == (2 * 100 * n + d) \div (2 * d)

\* the percentage rounded down
DashboardPercent_floor(logados, totalActiveNum) ==
  IF totalActiveNum # 0 THEN Min(100, (100 * logados) \div totalActiveNum) ELSE 0

\* DashboardSemaforo: percent
DashboardPercent(logados, totalActiveNum) ==
  IF totalActiveNum # 0 THEN Min(100, RoundPercent(logados, totalActiveNum)) ELSE 0

\* the most items of a batch explored, and what the function of an item comes
\* to: a value, null, or a rejection
MaxItems == 4
ItemOutcomes == {"value", "null", "reject"}

\* the chunk from item i on, not cut at the concurrency
BatchChunk_uncut(i, concurrency, n) == i..n

\* processBatch: items.slice(i, i + concurrency), as places of items counted from 1
BatchChunk(i, concurrency, n) == {k \in i..n : k < i + concurrency}

RECURSIVE BatchKept(_, _, _)
\* processBatch: res.filter(Boolean) over the chunk lo..hi, in the order of the items
BatchKept(items, lo, hi) ==
  IF lo > hi THEN <<>>
  ELSE (IF items[lo] = "value" THEN <<lo>> ELSE <<>>) \o BatchKept(items, lo + 1, hi)

\* the ids asked of fetchFotosMap, and the values of imagem_perfil explored
FotoIds == {"7", "8"}
FotoRaws == {"", "/a.jpg", "logo-vieira.png"}

\* sanitizeFotoPath(null): the default icon
FotoPlaceholder == "http://localhost:8003/vieira-icone.jpg?v=1"

\* sanitizeFotoPath over the values explored
SanitizeFotoPath(raw) ==
  CASE raw = "/a.jpg" -> "http://localhost:8003/a.jpg"
    [] OTHER          -> FotoPlaceholder

\* the local database asked before the cloud
FetchOrder_localFirst(preferCloud) ==
  IF preferCloud THEN <<"local", "cloud">> ELSE <<"cloud", "local">>

\* fetchFotosMap: fetchOrder (useCloud true is "cloud")
FetchOrder(preferCloud) ==
  IF preferCloud THEN <<"cloud", "local">> ELSE <<"local", "cloud">>

\* what fetchFotosFromDb can come to for a batch: it throws, or it gives a Map
\* with the raw value of some of the ids
FotosDbAnswers(batch) ==
  {[ok |-> FALSE, map |-> [x \in {} |-> ""]]}
    \cup {[ok |-> TRUE, map |-> m] : m \in UNION {[f -> FotoRaws] : f \in SUBSET batch}}

\* updateService and scheduleStatusUpdater: timers created at most, runs of
\* one job started at most, values of opts.retries explored
MaxTimers == 3
MaxJobStarts == 2
JobRetries == {0, 1}

\* runJobNow without its test of isRunning
JobBusy_never(info) == FALSE

\* runJobNow: if (info.isRunning)
JobBusy(info) == info.isRunning

\* clearInterval that leaves the timer alive
ClearInterval_noop(timers, id) == timers

\* clearInterval(id)
ClearInterval(timers, id) == timers \ {id}

\* scheduleStatusUpdater without its test of state.schedulerId
StatusScheduled_never(schedulerId) == FALSE

\* scheduleStatusUpdater: if (state.schedulerId)
StatusScheduled(schedulerId) == schedulerId # 0

\* DashboardSemaforo: the number of "bg-green-400" bars of linhasLogados
LinhasLogados(percent) ==
  IF percent <= 24 THEN 0
  ELSE IF percent >= 25 /\ percent <= 49 THEN 1
  ELSE IF percent >= 50 /\ percent <= 74 THEN 2
  ELSE IF percent >= 75 /\ percent < 99 THEN 3
  ELSE IF percent = 100 THEN 4
  ELSE 0

\* DashboardSemaforo: requests issued at most; MAX_BACKOFF_STEPS
MaxPolls == 3
MAX_BACKOFF_STEPS == 5

\* what fetch(...) can come to: a 304, a 200, another status, a rejection
FetchOutcomes == {"304", "200", "notOk", "reject"}

\* AbortController.abort() on the controller of request id
AbortRequest(requests, id) ==
  {IF q.id = id THEN [q EXCEPT !.aborted = TRUE] ELSE q : q \in requests}

\* the arguments explored for the function of a unit
CallInputs(u) ==
  CASE u = "findFirst" ->
         {[colsSet |-> cs, candidates |-> q, out |-> "unset"] :
            cs \in SUBSET ColumnNames, q \in SeqsUpTo(CandidateNames, MaxCandidates)}
    [] u = "queries" ->
         {[colabCols |-> cc, statusCols |-> sc, done |-> FALSE, out |-> NoCall] :
            cc \in SUBSET ColabColumnNames, sc \in SUBSET StatusColumnNames}
    [] u = "rankingSort" ->
         {[salesMap |-> m, done |-> FALSE, out |-> <<>>] : m \in SalesMaps}
    [] u = "saveTx" ->
         {[before |-> b, rows |-> n, pc |-> "start", i |-> 0, table |-> b,
           uncommitted |-> b, tx |-> "none", out |-> "unset"] :
            b \in SavedRows, n \in SavedRows}
    [] u = "cacheService" -> {NewCacheService}
    [] u = "routes" ->
         {[route |-> rt, debugToken |-> d, req |-> q, done |-> FALSE,
           out |-> [status |-> 0, handled |-> FALSE]] :
            rt \in AdminRoutes, d \in DebugTokens, q \in AdminRequests}
    [] u = "percent" ->
         {[operadores |-> ops, totalActive |-> ta, apiLogados |-> lg, done |-> FALSE,
           out |-> 0] :
            ops \in SeqsUpTo(StatusTexts, MaxOperators), ta \in {0, 1, 2, 3, 8, 10},
            lg \in {0, 2}}
    [] u = "batch" ->
         {[items |-> it, concurrency |-> c, pc |-> "start", i |-> 1, running |-> {},
           started |-> [n \in 1..Len(it) |-> 0], out |-> <<>>] :
            it \in SeqsUpTo(ItemOutcomes, MaxItems), c \in {1, 2}}
    [] u = "fotos" ->
         {[ids |-> i, cache |-> c, pc |-> "start", k |-> 1, remaining |-> {},
           outMap |-> [x \in {} |-> ""], lookups |-> <<>>] :
            i \in SUBSET FotoIds, c \in UNION {[f -> FotoRaws] : f \in SUBSET FotoIds}}
    [] u = "updateService" ->
         {[retries |-> n, intervalId |-> 0, isRunning |-> FALSE, timers |-> {},
           created |-> 0,
           metrics |-> [runs |-> 0, successes |-> 0, failures |-> 0, attempts |-> 0],
           jobRuns |-> {}, schedulerId |-> 0, statusTimers |-> {}, statusCalls |-> 0] :
            n \in JobRetries}
    [] u = "gauge" -> {[percent |-> p, done |-> FALSE, out |-> 0] : p \in 0..100}
    [] u = "dashboard" ->
         {[mounted |-> FALSE, listening |-> FALSE, timer |-> FALSE, abortRef |-> 0,
           requests |-> {}, issued |-> 0, backoffRef |-> 0, etagRef |-> e] :
            e \in {Null}}
    [] OTHER -> {NoCall}

\* fetchData(force) from component state c up to "await fetch": the controller
\* in abortRef is aborted, a new one is stored there and its request issued
FetchData(c) ==
  LET id == c.issued + 1
      rs == IF c.abortRef # 0 THEN AbortRequest(c.requests, c.abortRef) ELSE c.requests
  IN [c EXCEPT !.abortRef = id, !.issued = id,
               !.requests = rs \cup {[id |-> id, aborted |-> FALSE, pc |-> "fetch"]}]

\* scheduleNext(): the poll timer is cleared and set again
ScheduleNext(c) == [c EXCEPT !.timer = TRUE]

\* fetchData, the finally block, for request q
FetchFinally(c, q) == [c EXCEPT !.abortRef = 0, !.requests = @ \ {q}]

\* fetchData, the catch block and the finally, for request q
FetchCatch(c, q) ==
  IF ~c.mounted THEN FetchFinally(c, q)
  ELSE FetchFinally(ScheduleNext([c EXCEPT !.backoffRef =
                                     Min(MAX_BACKOFF_STEPS, c.backoffRef + 1)]), q)

\* the effect of useEffect: mountedRef, the first fetchData(true), the listeners
DashboardMount ==
  /\ unit = "dashboard"
  /\ ~call.mounted /\ call.issued = 0
  /\ call' = [FetchData(call) EXCEPT !.mounted = TRUE, !.listening = TRUE]
  /\ resp' = {[kind |-> "request", id |-> 1]}
  /\ UNCHANGED <<notCall, unit, mode, now>>

\* the poll timer of scheduleNext fires: fetchData(false)
DashboardTimerFires ==
  /\ unit = "dashboard"
  /\ call.timer
  /\ call.issued < MaxPolls
  /\ call' = FetchData([call EXCEPT !.timer = FALSE])
  /\ resp' = {[kind |-> "request", id |-> call.issued + 1]}
  /\ UNCHANGED <<notCall, unit, mode, now>>

\* handleFocus, and handleVisibility when the page is visible: fetchData(true)
DashboardFocus ==
  /\ unit = "dashboard"
  /\ call.listening
  /\ call.issued < MaxPolls
  /\ call' = FetchData(call)
  /\ resp' = {[kind |-> "request", id |-> call.issued + 1]}
  /\ UNCHANGED <<notCall, unit, mode, now>>

\* the timeout of FETCH_TIMEOUT_MS of request q fires while fetch is pending
DashboardFetchTimeout(q) ==
  /\ unit = "dashboard"
  /\ q \in call.requests
  /\ q.pc = "fetch" /\ ~q.aborted
  /\ call' = [call EXCEPT !.requests = AbortRequest(@, q.id)]
  /\ resp' = {}
  /\ UNCHANGED <<notCall, unit, mode, now>>

\* fetchData: "await fetch" of request q settled; an aborted request rejects
DashboardFetchSettles(q, outcome) ==
  /\ unit = "dashboard"
  /\ q \in call.requests
  /\ q.pc = "fetch"
  /\ q.aborted => outcome = "reject"
  /\ CASE outcome = "304" ->
            /\ call' = FetchFinally(ScheduleNext([call EXCEPT !.backoffRef = 0]), q)
            /\ resp' = {[kind |-> "scheduled", id |-> q.id]}
       [] outcome = "200" ->
            /\ call' = [call EXCEPT !.etagRef = "etag",
                                    !.requests = (@ \ {q}) \cup {[q EXCEPT !.pc = "json"]}]
            /\ resp' = {}
       [] OTHER ->
            /\ call' = FetchCatch(call, q)
            /\ resp' = IF call.mounted THEN {[kind |-> "scheduled", id |-> q.id]} ELSE {}
  /\ UNCHANGED <<notCall, unit, mode, now>>

\* fetchData: "await res.json()" of request q settled; an aborted request rejects
DashboardJsonSettles(q, ok) ==
  /\ unit = "dashboard"
  /\ q \in call.requests
  /\ q.pc = "json"
  /\ q.aborted => ~ok
  /\ IF ok
     THEN /\ call' = IF ~call.mounted THEN FetchFinally(call, q)
                     ELSE FetchFinally(ScheduleNext([call EXCEPT !.backoffRef = 0]), q)
          /\ resp' = IF call.mounted THEN {[kind |-> "scheduled", id |-> q.id]} ELSE {}
     ELSE /\ call' = FetchCatch(call, q)
          /\ resp' = IF call.mounted THEN {[kind |-> "scheduled", id |-> q.id]} ELSE {}
  /\ UNCHANGED <<notCall, unit, mode, now>>

\* the cleanup of useEffect: mountedRef false, the poll timer cleared, the
\* listeners removed, the controller in abortRef aborted
DashboardUnmount ==
  /\ unit = "dashboard"
  /\ call.mounted
  /\ call' = [call EXCEPT !.mounted = FALSE, !.timer = FALSE, !.listening = FALSE,
                          !.requests = IF call.abortRef # 0
                                       THEN AbortRequest(@, call.abortRef) ELSE @]
  /\ resp' = {}
  /\ UNCHANGED <<notCall, unit, mode, now>>

\* the status requests of the dashboard that have not ended
DashboardRequests == IF unit = "dashboard" THEN call.requests ELSE {}

\* the steps of the polling of DashboardSemaforo
DashboardNext ==
  \/ DashboardMount
  \/ DashboardTimerFires
  \/ DashboardFocus
  \/ \E q \in DashboardRequests : DashboardFetchTimeout(q)
  \/ \E q \in DashboardRequests, outcome \in FetchOutcomes : DashboardFetchSettles(q, outcome)
  \/ \E q \in DashboardRequests, ok \in BOOLEAN : DashboardJsonSettles(q, ok)
  \/ DashboardUnmount

\* DashboardSemaforo renders the gauge for percent
LinhasLogadosCall ==
  /\ unit = "gauge"
  /\ ~call.done
  /\ call' = [call EXCEPT !.done = TRUE, !.out = LinhasLogados(call.percent)]
  /\ resp' = {}
  /\ UNCHANGED <<notCall, unit, mode, now>>

\* runJobNow(jobName) from job info c, up to its await: the answer
\* alreadyRunning, or the run is counted and fn invoked for the first attempt
\* of runWithRetry
RunJobNow(c) ==
  IF JobBusy(c) THEN c
  ELSE [c EXCEPT !.isRunning = TRUE,
                 !.metrics.runs = @ + 1,
                 !.jobRuns = @ \cup {[n |-> c.metrics.runs + 1, pc |-> "fn", attempt |-> 1,
                                      retries |-> c.retries]}]

\* what the call of runJobNow from job info c has answered so far
RunJobNowAnswer(c) ==
  IF JobBusy(c) THEN {[kind |-> "runJobNow", ok |-> FALSE, alreadyRunning |-> TRUE]}
  ELSE {}

\* runJobNow after runWithRetry returned retryRes for run: the metrics, isRunning = false
RunJobFinish(c, run, ok) ==
  [c EXCEPT !.jobRuns = @ \ {run},
            !.isRunning = FALSE,
            !.metrics.attempts = @ + run.attempt,
            !.metrics.successes = IF ok THEN @ + 1 ELSE @,
            !.metrics.failures = IF ok THEN @ ELSE @ + 1]

\* a caller invokes runJobNow(jobName)
JobRunNow ==
  /\ unit = "updateService"
  /\ JobBusy(call) \/ call.metrics.runs < MaxJobStarts
  /\ call' = RunJobNow(call)
  /\ resp' = RunJobNowAnswer(call)
  /\ UNCHANGED <<notCall, unit, mode, now>>

\* the setInterval callback of scheduleJob: runJobNow(jobName)
JobTimerFires(id) ==
  /\ unit = "updateService"
  /\ id \in call.timers
  /\ JobBusy(call) \/ call.metrics.runs < MaxJobStarts
  /\ call' = RunJobNow(call)
  /\ resp' = RunJobNowAnswer(call)
  /\ UNCHANGED <<notCall, unit, mode, now>>

\* scheduleJob(jobName, intervalMs): the old timer is cleared, a new one is
\* created, runJobNow is called once
ScheduleJob ==
  /\ unit = "updateService"
  /\ call.created < MaxTimers
  /\ JobBusy(call) \/ call.metrics.runs < MaxJobStarts
  /\ LET id == call.created + 1
         cleared == IF call.intervalId # 0 THEN ClearInterval(call.timers, call.intervalId)
                    ELSE call.timers
         c == [call EXCEPT !.timers = cleared \cup {id}, !.intervalId = id, !.created = id]
     IN /\ call' = RunJobNow(c)
        /\ resp' = RunJobNowAnswer(c) \cup {[kind |-> "scheduleJob", id |-> id]}
  /\ UNCHANGED <<notCall, unit, mode, now>>

\* stopJob(jobName)
StopJob ==
  /\ unit = "updateService"
  /\ call.intervalId # 0
  /\ call' = [call EXCEPT !.timers = ClearInterval(@, call.intervalId), !.intervalId = 0]
  /\ resp' = {[kind |-> "stopJob"]}
  /\ UNCHANGED <<notCall, unit, mode, now>>

\* registerJob on the job that exists: fn and opts are replaced
RegisterJob(retries) ==
  /\ unit = "updateService"
  /\ call.retries # retries
  /\ call' = [call EXCEPT !.retries = retries]
  /\ resp' = {}
  /\ UNCHANGED <<notCall, unit, mode, now>>

\* runWithRetry: fn() of run settled; success returns, a failure after the
\* last attempt returns, another failure sleeps
JobFnSettles(run, ok) ==
  /\ unit = "updateService"
  /\ run \in call.jobRuns
  /\ run.pc = "fn"
  /\ IF ok \/ run.attempt > run.retries
     THEN /\ call' = RunJobFinish(call, run, ok)
          /\ resp' = {[kind |-> "runJobNow", ok |-> ok, alreadyRunning |-> FALSE]}
     ELSE /\ call' = [call EXCEPT !.jobRuns = (@ \ {run}) \cup {[run EXCEPT !.pc = "sleep"]}]
          /\ resp' = {}
  /\ UNCHANGED <<notCall, unit, mode, now>>

\* runWithRetry: the sleep before the next attempt ended, fn is invoked again
JobSleepDone(run) ==
  /\ unit = "updateService"
  /\ run \in call.jobRuns
  /\ run.pc = "sleep"
  /\ call' = [call EXCEPT !.jobRuns = (@ \ {run}) \cup
                              {[run EXCEPT !.pc = "fn", !.attempt = @ + 1]}]
  /\ resp' = {}
  /\ UNCHANGED <<notCall, unit, mode, now>>

\* scheduleStatusUpdater(): the timer that exists is returned, or
\* updateStatusOperadores is called and the timer created
ScheduleStatusUpdater ==
  /\ unit = "updateService"
  /\ IF StatusScheduled(call.schedulerId)
     THEN /\ resp' = {[kind |-> "scheduleStatusUpdater", id |-> call.schedulerId]}
          /\ UNCHANGED call
     ELSE /\ call.statusCalls < MaxTimers
          /\ LET id == call.statusCalls + 1 IN
             /\ call' = [call EXCEPT !.statusCalls = id, !.schedulerId = id,
                                     !.statusTimers = @ \cup {id}]
             /\ resp' = {[kind |-> "scheduleStatusUpdater", id |-> id]}
  /\ UNCHANGED <<notCall, unit, mode, now>>

\* the runs of the job that have not returned
JobRunsInProgress == IF unit = "updateService" THEN call.jobRuns ELSE {}

\* the steps of updateService and of the registration of the status timer
UpdateServiceNext ==
  \/ JobRunNow
  \/ \E id \in 1..MaxTimers : JobTimerFires(id)
  \/ ScheduleJob
  \/ StopJob
  \/ \E retries \in JobRetries : RegisterJob(retries)
  \/ \E run \in JobRunsInProgress, ok \in BOOLEAN : JobFnSettles(run, ok)
  \/ \E run \in JobRunsInProgress : JobSleepDone(run)
  \/ ScheduleStatusUpdater

\* fetchFotosMap, head of the loop over fetchOrder at its k-th source, from
\* call state c: the next lookup, or the fallback for the ids left and the return
FotosLoop(c, k) ==
  IF k <= 2 /\ c.remaining # {}
  THEN [c EXCEPT !.pc = "lookup", !.k = k]
  ELSE [c EXCEPT !.pc = "done", !.k = k, !.remaining = {},
                 !.outMap = [x \in (DOMAIN c.outMap) \cup c.remaining |->
                               IF x \in c.remaining THEN SanitizeFotoPath(Null)
                               ELSE c.outMap[x]]]

\* fetchFotosMap(ids) with the default opts: the fresh cache entries answer,
\* the other ids are to fetch
FetchFotosMap ==
  /\ unit = "fotos"
  /\ call.pc = "start"
  /\ LET hits == call.ids \cap DOMAIN call.cache
         c == [call EXCEPT !.outMap = [x \in hits |-> SanitizeFotoPath(call.cache[x])],
                           !.remaining = call.ids \ hits]
     IN call' = IF c.remaining = {} THEN [c EXCEPT !.pc = "done"] ELSE FotosLoop(c, 1)
  /\ resp' = {}
  /\ UNCHANGED <<notCall, unit, mode, now>>

\* fetchFotosMap: fetchFotosFromDb(batch, useCloud) threw or gave its Map
FotosDbDone(ans) ==
  /\ unit = "fotos"
  /\ call.pc = "lookup"
  /\ ans \in FotosDbAnswers(call.remaining)
  /\ LET found == DOMAIN ans.map
         c == [call EXCEPT
                 !.lookups = Append(@, [source |-> FetchOrder(TRUE)[call.k],
                                        batch |-> call.remaining, ans |-> ans]),
                 !.outMap = [x \in (DOMAIN call.outMap) \cup found |->
                               IF x \in found THEN SanitizeFotoPath(ans.map[x])
                               ELSE call.outMap[x]],
                 !.remaining = @ \ found]
     IN call' = FotosLoop(c, call.k + 1)
  /\ resp' = {}
  /\ UNCHANGED <<notCall, unit, mode, now>>

\* the steps of fetchFotosMap
FotosNext ==
  \/ FetchFotosMap
  \/ \E ans \in FotosDbAnswers(FotoIds) : FotosDbDone(ans)

\* processBatch, head of the for loop at place i of batch b: the function of
\* every item of the chunk is called, or the result is returned
BatchLoop(b, i) ==
  LET chunk == BatchChunk(i, b.concurrency, Len(b.items)) IN
  IF i > Len(b.items)
  THEN [b EXCEPT !.pc = "done", !.i = i]
  ELSE [b EXCEPT !.pc = "chunk", !.i = i, !.running = chunk,
                 !.started = [n \in DOMAIN b.started |->
                                IF n \in chunk THEN b.started[n] + 1 ELSE b.started[n]]]

\* processBatch(items, fn, concurrency, throttleMs) is called
ProcessBatch ==
  /\ unit = "batch"
  /\ call.pc = "start"
  /\ call' = BatchLoop(call, 1)
  /\ resp' = {}
  /\ UNCHANGED <<notCall, unit, mode, now>>

\* the function of item n settles; with the last of the chunk Promise.all
\* resolves, the values are pushed and the throttle sleep begins, or the loop
\* goes on at once
BatchItemSettles(n) ==
  /\ unit = "batch"
  /\ call.pc = "chunk"
  /\ n \in call.running
  /\ LET hi == call.i + call.concurrency - 1
         top == IF hi < Len(call.items) THEN hi ELSE Len(call.items)
         b == [call EXCEPT !.running = @ \ {n},
                           !.out = @ \o BatchKept(call.items, call.i, top)]
     IN IF call.running # {n}
        THEN call' = [call EXCEPT !.running = @ \ {n}]
        ELSE IF Len(call.items) > call.concurrency
        THEN call' = [b EXCEPT !.pc = "sleep"]
        ELSE call' = BatchLoop(b, call.i + call.concurrency)
  /\ resp' = {}
  /\ UNCHANGED <<notCall, unit, mode, now>>

\* processBatch: await sleep(throttleMs) is over
BatchSleepDone ==
  /\ unit = "batch"
  /\ call.pc = "sleep"
  /\ call' = BatchLoop(call, call.i + call.concurrency)
  /\ resp' = {}
  /\ UNCHANGED <<notCall, unit, mode, now>>

\* the steps of processBatch
BatchNext ==
  \/ ProcessBatch
  \/ \E n \in 1..MaxItems : BatchItemSettles(n)
  \/ BatchSleepDone

\* DashboardSemaforo renders: the percentage of logged-in operators
DashboardPercentCall ==
  /\ unit = "percent"
  /\ ~call.done
  /\ call' = [call EXCEPT
                !.done = TRUE,
                !.out = DashboardPercent(LogadosBase(call.operadores, call.apiLogados),
                                         call.totalActive)]
  /\ resp' = {}
  /\ UNCHANGED <<notCall, unit, mode, now>>

\* a request to an admin route passes its middleware and reaches the handler,
\* or is answered 401
AdminRouteCall ==
  /\ unit = "routes"
  /\ ~call.done
  /\ call' = [call EXCEPT
                !.done = TRUE,
                !.out = IF RequireDebugAuth(call.route.auth, call.debugToken, call.req)
                        THEN [status |-> 200, handled |-> TRUE]
                        ELSE [status |-> 401, handled |-> FALSE]]
  /\ resp' = {}
  /\ UNCHANGED <<notCall, unit, mode, now>>

\* an operation on the CacheService ends: c is the object it leaves
CacheServiceOp(c) ==
  /\ unit = "cacheService"
  /\ call.ops < MaxCacheOps
  /\ call' = [c EXCEPT !.ops = call.ops + 1]
  /\ resp' = {}
  /\ UNCHANGED <<notCall, unit, mode, now>>

\* CacheService.set(key, value, ttl)
CacheServiceSet(k, ttl) ==
  /\ unit = "cacheService"
  /\ LET cache == [call.cache EXCEPT ![k] = CacheSet("v", ttl, call.t)] IN
     CacheServiceOp([call EXCEPT !.cache = cache,
                                 !.metrics.sets = @ + 1,
                                 !.metrics.size = CacheSize(cache),
                                 !.setCalls = @ + 1,
                                 !.out = "v"])

\* CacheService.get(key)
CacheServiceGet(k) ==
  /\ unit = "cacheService"
  /\ LET entry == call.cache[k]
         cache == [call.cache EXCEPT ![k] = CacheAfterGet(entry, call.t)]
     IN IF entry = NoEntry
        THEN CacheServiceOp([call EXCEPT !.metrics.misses = @ + 1, !.gets = @ + 1,
                                         !.out = Null])
        ELSE IF call.t > entry.expiresAt
        THEN CacheServiceOp([call EXCEPT !.cache = cache,
                                         !.metrics.misses = @ + 1,
                                         !.metrics.size = CacheSize(cache),
                                         !.gets = @ + 1, !.removed = @ + 1,
                                         !.out = Null])
        ELSE CacheServiceOp([call EXCEPT !.metrics.hits = @ + 1, !.gets = @ + 1,
                                         !.out = CacheGet(entry, call.t)])

\* CacheService.delete(key)
CacheServiceDelete(k) ==
  /\ unit = "cacheService"
  /\ LET cache == [call.cache EXCEPT ![k] = NoEntry] IN
     IF call.cache[k] # NoEntry
     THEN CacheServiceOp([call EXCEPT !.cache = cache,
                                      !.metrics.deletes = @ + 1,
                                      !.metrics.size = CacheSize(cache),
                                      !.removed = @ + 1, !.out = "true"])
     ELSE CacheServiceOp([call EXCEPT !.out = "false"])

\* CacheService.cleanup()
CacheServiceCleanup ==
  /\ unit = "cacheService"
  /\ LET cache == [k \in CacheKeys |->
                     IF call.cache[k] # NoEntry /\ ~CacheCleanupKeeps(call.cache[k], call.t)
                     THEN NoEntry ELSE call.cache[k]]
     IN CacheServiceOp([call EXCEPT !.cache = cache,
                                    !.metrics.size = CacheSize(cache),
                                    !.removed = @ + CacheSize(call.cache) - CacheSize(cache),
                                    !.out = "swept"])

\* CacheService.clear()
CacheServiceClear ==
  /\ unit = "cacheService"
  /\ CacheServiceOp([call EXCEPT !.cache = [k \in CacheKeys |-> NoEntry],
                                 !.metrics.size = 0,
                                 !.removed = @ + CacheSize(call.cache),
                                 !.out = "cleared"])

\* a millisecond passes
CacheTimePasses ==
  /\ unit = "cacheService"
  /\ call.t < MaxCacheTime
  /\ call' = [call EXCEPT !.t = @ + 1]
  /\ resp' = {}
  /\ UNCHANGED <<notCall, unit, mode, now>>

\* the operations on a CacheService
CacheServiceNext ==
  \/ \E k \in CacheKeys, ttl \in CacheTtls : CacheServiceSet(k, ttl)
  \/ \E k \in CacheKeys : CacheServiceGet(k)
  \/ \E k \in CacheKeys : CacheServiceDelete(k)
  \/ CacheServiceCleanup
  \/ CacheServiceClear
  \/ CacheTimePasses

\* saveRankingToTable, catch: the rollback is asked of the transaction the
\* error carries, when it carries one; a failure of the rollback is swallowed;
\* false is returned
SaveCatch(hasTransaction, rollbackOk) ==
  call' = [call EXCEPT !.pc = "done", !.out = "false",
                       !.tx = IF call.tx = "open" /\ hasTransaction /\ rollbackOk
                              THEN "rolledback" ELSE @,
                       !.uncommitted = IF call.tx = "open" /\ hasTransaction /\ rollbackOk
                                       THEN call.table ELSE @]

\* saveRankingToTable: getLocalPool and tx.begin()
SaveBeginDone(pool, beginOk, hasTransaction, rollbackOk) ==
  /\ unit = "saveTx"
  /\ call.pc = "start"
  /\ CASE pool = "none"  -> call' = [call EXCEPT !.pc = "done", !.out = "false"]
       [] pool = "throw" -> SaveCatch(hasTransaction, rollbackOk)
       [] ~beginOk       -> SaveCatch(hasTransaction, rollbackOk)
       [] OTHER          -> call' = [call EXCEPT !.pc = "delete", !.tx = "open"]
  /\ resp' = {}
  /\ UNCHANGED <<notCall, unit, mode, now>>

\* saveRankingToTable: the DELETE of today's rows of the empresa ended
SaveDeleteDone(ok, hasTransaction, rollbackOk) ==
  /\ unit = "saveTx"
  /\ call.pc = "delete"
  /\ IF ok
     THEN call' = [call EXCEPT !.uncommitted = <<>>,
                               !.pc = IF call.rows = <<>> THEN "commit" ELSE "insert",
                               !.i = 1]
     ELSE SaveCatch(hasTransaction, rollbackOk)
  /\ resp' = {}
  /\ UNCHANGED <<notCall, unit, mode, now>>

\* saveRankingToTable: the INSERT of row i ended
SaveInsertDone(ok, hasTransaction, rollbackOk) ==
  /\ unit = "saveTx"
  /\ call.pc = "insert"
  /\ IF ok
     THEN call' = [call EXCEPT !.uncommitted = Append(@, call.rows[call.i]),
                               !.pc = IF call.i = Len(call.rows) THEN "commit" ELSE "insert",
                               !.i = @ + 1]
     ELSE SaveCatch(hasTransaction, rollbackOk)
  /\ resp' = {}
  /\ UNCHANGED <<notCall, unit, mode, now>>

\* saveRankingToTable: tx.commit() ended
SaveCommitDone(ok, hasTransaction, rollbackOk) ==
  /\ unit = "saveTx"
  /\ call.pc = "commit"
  /\ IF ok
     THEN call' = [call EXCEPT !.pc = "done", !.out = "true", !.tx = "committed",
                               !.table = call.uncommitted]
     ELSE SaveCatch(hasTransaction, rollbackOk)
  /\ resp' = {}
  /\ UNCHANGED <<notCall, unit, mode, now>>

\* the steps of saveRankingToTable
SaveNext ==
  \/ \E pool \in {"pool", "none", "throw"}, ok, hasTransaction, rollbackOk \in BOOLEAN :
       SaveBeginDone(pool, ok, hasTransaction, rollbackOk)
  \/ \E ok, hasTransaction, rollbackOk \in BOOLEAN :
       SaveDeleteDone(ok, hasTransaction, rollbackOk)
  \/ \E ok, hasTransaction, rollbackOk \in BOOLEAN :
       SaveInsertDone(ok, hasTransaction, rollbackOk)
  \/ \E ok, hasTransaction, rollbackOk \in BOOLEAN :
       SaveCommitDone(ok, hasTransaction, rollbackOk)

\* updateRanking sorts the sales of the day and builds its result
RankingSortCall ==
  /\ unit = "rankingSort"
  /\ ~call.done
  /\ call' = [call EXCEPT !.done = TRUE, !.out = RankingResult(call.salesMap)]
  /\ resp' = {}
  /\ UNCHANGED <<notCall, unit, mode, now>>

\* getStatusOperadores and updateStatusOperadores build and run their queries
StatusQueriesCall ==
  /\ unit = "queries"
  /\ ~call.done
  /\ call' = [call EXCEPT !.done = TRUE,
                          !.out = StatusQueriesOutcome(call.colabCols, call.statusCols)]
  /\ resp' = {}
  /\ UNCHANGED <<notCall, unit, mode, now>>

\* findFirst is called and returns
FindFirstCall ==
  /\ unit = "findFirst"
  /\ call.out = "unset"
  /\ call' = [call EXCEPT !.out = FindFirst(call.colsSet, call.candidates)]
  /\ resp' = {}
  /\ UNCHANGED <<notCall, unit, mode, now>>

CallNext ==
  \/ FindFirstCall
  \/ StatusQueriesCall
  \/ RankingSortCall
  \/ SaveNext
  \/ CacheServiceNext
  \/ AdminRouteCall
  \/ DashboardPercentCall
  \/ BatchNext
  \/ FotosNext
  \/ UpdateServiceNext
  \/ LinhasLogadosCall
  \/ DashboardNext

----------------------------------------------------------------------------
(* Time *)

\* milliseconds the clock advances at once: half the life of the unit's cache
TickMs == IF unit = "empresas" THEN LongTickMs ELSE ShortTickMs

\* time passes
Tick ==
  /\ now < Epoch + MaxTicks * TickMs
  /\ now' = now + TickMs
  /\ resp' = {}
  /\ UNCHANGED <<unit, mode, runs, reqs, rankingVars, empresasCache, statusVars, argus, fetch, call>>

----------------------------------------------------------------------------
(* The process *)

\* the deployments explored for a unit
Modes(u) ==
  CASE u \in {"argus", "fetch", "findFirst", "queries", "rankingSort",
              "saveTx",
              "cacheService",
              "routes",
              "percent",
              "batch",
              "fotos",
              "updateService",
              "gauge",
              "dashboard"} -> {"http"}
    [] u = "status" -> {"http", "sched", "admin", "idle"}
    [] OTHER        -> {"http", "sched", "admin"}

Init ==
  /\ unit \in {"ranking", "empresas", "status", "argus", "fetch", "findFirst", "queries",
              "rankingSort",
              "saveTx",
              "cacheService",
              "routes",
              "percent",
              "batch",
              "fotos",
              "updateService",
              "gauge",
              "dashboard"}
  /\ mode \in Modes(unit)
  /\ now = Epoch
  /\ runs = [r \in Runs |-> IdleRun]
  /\ reqs = [h \in Reqs |-> NewReq]
  /\ resp = {}
  /\ rankingCacheMap = EmptyMap
  /\ saves = {}
  /\ persisted = [k \in Empresas |-> EmptyArr]
  /\ empresasCache = [data |-> Null, ts |-> 0, isFetching |-> FALSE, fetchPromise |-> NoPromise]
  /\ state = [cache |-> [data |-> Null, ts |-> 0], isFetching |-> FALSE, failCount |-> 0,
              nextAllowedAt |-> 0, argusAuthFailed |-> FALSE,
              colsCache |-> [x \in {TABELA_COLAB, TABELA_STATUS} |-> Null]]
  /\ delaySec = 0
  /\ argus = [isFetching |-> FALSE, queue |-> 0, pc |-> "idle", attempt |-> 0, cache |-> NoEntry]
  /\ fetch = [c \in Calls |-> IdleFetch]
  /\ call \in CallInputs(unit)

Next ==
  \/ RankingNext
  \/ EmpresasNext
  \/ StatusNext
  \/ ArgusNext
  \/ FetchNext
  \/ CallNext
  \/ Tick

Spec == Init /\ [][Next]_vars

\* the status updater alone, in the process that receives no request
InitBackoff == Init /\ unit = "status" /\ mode = "idle"

BackoffNext ==
  \/ StatusUpdaterNext
  \/ Tick

SpecBackoff == InitBackoff /\ [][BackoffNext]_vars

\* fetchArgusForRamal alone
InitFetch == Init /\ unit = "fetch"

SpecFetch == InitFetch /\ [][FetchNext]_vars

\* findFirst alone
InitFindFirst == Init /\ unit = "findFirst"

SpecFindFirst == InitFindFirst /\ [][FindFirstCall]_vars

\* the queries of the status controller alone
InitQueries == Init /\ unit = "queries"

SpecQueries == InitQueries /\ [][StatusQueriesCall]_vars

\* the sort of updateRanking alone
InitRankingSort == Init /\ unit = "rankingSort"

SpecRankingSort == InitRankingSort /\ [][RankingSortCall]_vars

\* saveRankingToTable alone
InitSave == Init /\ unit = "saveTx"

SpecSave == InitSave /\ [][SaveNext]_vars

\* a CacheService alone
InitCacheService == Init /\ unit = "cacheService"

SpecCacheService == InitCacheService /\ [][CacheServiceNext]_vars

\* the middleware of the admin routes alone
InitRoutes == Init /\ unit = "routes"

SpecRoutes == InitRoutes /\ [][AdminRouteCall]_vars

\* the percentage of the dashboard alone
InitPercent == Init /\ unit = "percent"

SpecPercent == InitPercent /\ [][DashboardPercentCall]_vars

\* argusService alone
InitArgus == Init /\ unit = "argus"

SpecArgus == InitArgus /\ [][ArgusNext \/ Tick]_vars

\* processBatch alone
InitBatch == Init /\ unit = "batch"

SpecBatch == InitBatch /\ [][BatchNext]_vars

\* fetchFotosMap alone
InitFotos == Init /\ unit = "fotos"

SpecFotos == InitFotos /\ [][FotosNext]_vars

\* the DB or HTTP call that execution r of a refresh awaits returns or fails
RunCallReturns(r) ==
  \/ \E ok \in BOOLEAN : RankingPoolDone(r, ok)
  \/ \E outcome \in {"rows", "empty", "fail"} : RankingVendDone(r, outcome)
  \/ \E outcome \in {"fail", "empty"} \cup Rankings : RankingSalesDone(r, outcome)
  \/ RankingFotosDone(r)
  \/ \E ok \in BOOLEAN : RankingPersistedInnerDone(r, ok)
  \/ \E ok \in BOOLEAN : RankingPersistedOuterDone(r, ok)
  \/ \E ok \in BOOLEAN : EmpresasPoolDone(r, ok)
  \/ \E outcome \in {"fail", EmptyArr} \cup EmpresaLists : EmpresasQueryDone(r, outcome)
  \/ \E ok \in BOOLEAN : StatusPoolDone(r, ok)
  \/ \E cols \in ColumnSets : StatusColabColsDone(r, cols)
  \/ \E cols \in ColumnSets : StatusStatusColsDone(r, cols)
  \/ \E outcome \in {"fail", "empty", "rows"} : StatusRamaisDone(r, outcome)
  \/ \E updates \in BOOLEAN, forbidden \in BOOLEAN : StatusArgusDone(r, updates, forbidden)
  \/ StatusUpsertDone(r)

\* the request of argusService, or its delay before a retry, comes to an end
ArgusCallReturns ==
  \/ \E outcome \in {"fail"} \cup ArgusPayloads : ArgusRequestDone(outcome)
  \/ ArgusDelayDone

\* the four services that mark a refresh in flight, each alone: the ranking
\* with its GETs and its admin routes, the empresas with GETs, timer and admin
\* routes, the status updater with its timer, argusService
InitRefresh ==
  /\ Init
  /\ \/ unit = "ranking" /\ mode \in {"http", "admin"}
     \/ unit = "empresas"
     \/ unit = "status" /\ mode = "idle"
     \/ unit = "argus"

RefreshNext ==
  \/ \E key \in Empresas : GetRanking(key)
  \/ \E s \in saves : RankingSaveCommit(s)
  \/ \E s \in saves : RankingSaveFail(s)
  \/ RankingRefreshRoute
  \/ RankingClearCaches
  \/ EmpresasNext
  \/ StatusSchedulerTick
  \/ StatusBackoffElapses
  \/ \E force \in BOOLEAN : FetchArgusData(force)
  \/ \E r \in Runs : RunCallReturns(r)
  \/ ArgusCallReturns
  \/ Tick

\* the services under the condition that every call a refresh awaits returns
SpecRefreshLive ==
  /\ InitRefresh
  /\ [][RefreshNext]_vars
  /\ \A r \in Runs : WF_vars(RunCallReturns(r))
  /\ WF_vars(ArgusCallReturns)

\* updateService and scheduleStatusUpdater alone
InitUpdateService == Init /\ unit = "updateService"

SpecUpdateService == InitUpdateService /\ [][UpdateServiceNext]_vars

\* the gauge of DashboardSemaforo alone
InitGauge == Init /\ unit = "gauge"

SpecGauge == InitGauge /\ [][LinhasLogadosCall]_vars

\* the polling of DashboardSemaforo alone
InitDashboard == Init /\ unit = "dashboard"

SpecDashboard == InitDashboard /\ [][DashboardNext]_vars

----------------------------------------------------------------------------
(* Properties *)

\* a refresh execution that has not returned yet
InProgress(r) == runs[r].pc \notin {"idle", "done"}

\* a request awaiting the promise of a refresh
Awaiting(h) == reqs[h].pc = "waiting"

\* the responses to HTTP GET requests among events
HttpKinds == {"hit", "own", "join", "replay", "read"}
HttpResponses(events) == {e \in events : e.kind \in HttpKinds}

\* the returns of updateStatusOperadores among events
StatusReturns(events) ==
  {e \in events : unit = "status" /\ e.kind = "return" /\ e.run # NoPromise}

(* C1: single-flight through the HTTP handlers.  In the process that serves  *)
(* only getRanking / getEmpresas, requests that are pending together for the *)
(* same key (the later ones arrived while the cache was not fresh and the    *)
(* refresh of the first had not completed) all await one and the same        *)
(* refresh execution: no second updateRanking / updateEmpresas was started.  *)
C1_SingleFlightHttp ==
  (mode = "http" /\ unit \in {"ranking", "empresas"}) =>
    \A h1, h2 \in Reqs :
      (Awaiting(h1) /\ Awaiting(h2) /\ reqs[h1].key = reqs[h2].key)
        => reqs[h1].run = reqs[h2].run

(* C2: for a cache key at most one refresh computation is in progress at any *)
(* time, whoever started it: an HTTP handler, a scheduler tick or a forced   *)
(* refresh route.                                                            *)
C2_OneRefreshPerKey ==
  \A r1, r2 \in Runs :
    (InProgress(r1) /\ InProgress(r2) /\ runs[r1].key = runs[r2].key) => r1 = r2

(* C3: in every reachable state, every ranking entry and the empresas entry  *)
(* have isFetching true exactly when fetchPromise is non-null.               *)
C3_FetchingIffPromise ==
  /\ \A k \in DOMAIN rankingCacheMap :
       rankingCacheMap[k].isFetching <=> (rankingCacheMap[k].fetchPromise # NoPromise)
  /\ empresasCache.isFetching <=> (empresasCache.fetchPromise # NoPromise)

(* C4: when a refresh completes, by success or by failure, the in-flight     *)
(* slot of the entry no longer holds the finished promise at the moment a    *)
(* caller that awaited it resumes (argusService: isFetching is false when a  *)
(* queued caller resumes), and no request ever awaits a finished promise.    *)
C4_SlotClearedOnResume ==
  /\ \A e \in HttpResponses(resp) :
       /\ e.kind # "replay"
       /\ e.kind \in {"own", "join"} =>
            /\ \A k \in DOMAIN rankingCacheMap :
                 unit = "ranking" => rankingCacheMap[k].fetchPromise # e.run
            /\ unit = "empresas" => empresasCache.fetchPromise # e.run
  /\ (\E e \in resp : e.kind = "return" /\ e.key \in {"own", "queued"}) => ~argus.isFetching
  /\ argus.queue > 0 => argus.isFetching /\ argus.pc # "idle"

\* a step in which updateRanking returns from one of its catch blocks
RankingFailedReturn(r) ==
  \/ RankingPoolDone(r, FALSE)
  \/ RankingVendDone(r, "fail")
  \/ \E ok \in BOOLEAN : RankingPersistedInnerDone(r, ok)
  \/ \E ok \in BOOLEAN : RankingPersistedOuterDone(r, ok)

\* a step in which updateEmpresas returns from its catch block
EmpresasFailedReturn(r) ==
  \/ EmpresasPoolDone(r, FALSE)
  \/ EmpresasQueryDone(r, "fail")

\* a step in which getStatusOperadores answers from its catch block
StatusFailedRead(h) ==
  \/ GetStatusPoolDone(h, FALSE)
  \/ GetStatusQueryDone(h, "fail")

\* the payload the ranking entry of the refresh r holds, null without entry
RankingHeld(r) ==
  IF unit = "ranking" /\ runs[r].key \in DOMAIN rankingCacheMap
  THEN rankingCacheMap[runs[r].key].data ELSE Null

\* a cached payload that is not empty
Populated(v) == v \notin {Null, EmptyArr}

(* C5: stale-serve-on-failure.  If the entry holds a populated value V when  *)
(* a refresh fails, the entry still holds V afterwards, and a GET that found *)
(* V in the entry and awaited the failed refresh is answered with V.         *)
C5_StaleServeOnFailure ==
  [][ /\ \A r \in Runs :
           (unit = "ranking" /\ InProgress(r) /\ Populated(RankingHeld(r))
              /\ runs[r].pc # "persistedOuter" /\ RankingFailedReturn(r))
           => /\ runs[r].key \in DOMAIN rankingCacheMap'
              /\ rankingCacheMap'[runs[r].key].data = RankingHeld(r)
              /\ \A h \in Reqs :
                   (Awaiting(h) /\ reqs[h].run = r /\ reqs[h].seen = RankingHeld(r))
                   => Response(reqs[h], RankingHeld(r)) \in resp'
      /\ \A r \in Runs :
           (unit = "empresas" /\ Populated(empresasCache.data) /\ EmpresasFailedReturn(r))
           => /\ empresasCache'.data = empresasCache.data
              /\ \A e \in HttpResponses(resp') : e.body = empresasCache.data
      /\ \A h \in Reqs :
           (unit = "status" /\ Populated(state.cache.data) /\ StatusFailedRead(h))
           => /\ state'.cache.data = state.cache.data
              /\ \A e \in HttpResponses(resp') : e.body = state.cache.data
    ]_vars

\* the payload that was cached when the failure was caught (updateRanking reads
\* the table in its outer catch only when none was), and the empty default
HeldBefore(r) ==
  CASE unit = "ranking"  -> IF runs[r].pc = "persistedOuter" THEN Null ELSE RankingHeld(r)
    [] unit = "empresas" -> empresasCache.data
    [] OTHER             -> state.cache.data
EmptyDefault == IF unit = "status" THEN StatusDefault ELSE EmptyArr

\* a step in which a GET is answered after a failure of the pool or of a query
FailedAnswer(r, h) ==
  \/ unit = "ranking" /\ InProgress(r) /\ RankingFailedReturn(r)
  \/ unit = "empresas" /\ EmpresasFailedReturn(r)
  \/ unit = "status" /\ StatusFailedRead(h)

(* C6: every GET of the three routes is answered with HTTP 200,    *)
(* and after a failure the body is the stale cached payload when one exists, *)
(* otherwise the empty default payload.                                      *)
C6_Always200StaleOrDefault ==
  [][ /\ \A e \in HttpResponses(resp') : e.code = 200
      /\ \A r \in Runs, h \in Reqs :
           FailedAnswer(r, h) =>
             \A e \in HttpResponses(resp') :
               e.body = IF Truthy(HeldBefore(r)) THEN HeldBefore(r) ELSE EmptyDefault
    ]_vars

(* What the controllers do guarantee where C6 fails: every GET of the three *)
(* routes is answered with HTTP 200 and a body, no exception reaches the 500 *)
(* handler of the route, and after a failure the body is the payload cached  *)
(* when the failure was caught or the empty default, or, for the ranking,    *)
(* today's rows persisted in ranking_operador.                               *)
Always200CachedPersistedOrDefault ==
  [][ /\ \A e \in HttpResponses(resp') : e.code = 200 /\ e.body # Null
      /\ \A r \in Runs, h \in Reqs :
           FailedAnswer(r, h) =>
             \A e \in HttpResponses(resp') :
               e.body \in
                 {IF Truthy(HeldBefore(r)) THEN HeldBefore(r) ELSE EmptyDefault}
                 \cup (IF unit = "ranking" THEN {persisted[runs[r].key]} \ {EmptyArr} ELSE {})
    ]_vars

(* C7: a GET that arrives while the entry is fresh (data present and         *)
(* now - ts < TTL) is answered with the cached payload, starts no refresh,   *)
(* leaves no request waiting for a query and leaves the entry unchanged.     *)
C7_FreshHit ==
  [][ /\ \A k \in Empresas :
           (GetRanking(k) /\ k \in DOMAIN rankingCacheMap
              /\ Truthy(rankingCacheMap[k].data)
              /\ now - rankingCacheMap[k].ts < 15000)
           => /\ \A e \in resp' : e.code = 200 /\ e.body = rankingCacheMap[k].data
              /\ resp' # {}
              /\ UNCHANGED <<runs, reqs, rankingCacheMap, saves, persisted>>
      /\ (GetEmpresas /\ Truthy(empresasCache.data) /\ now - empresasCache.ts < 60000)
           => /\ \A e \in resp' : e.code = 200 /\ e.body = empresasCache.data
              /\ resp' # {}
              /\ UNCHANGED <<runs, reqs, empresasCache>>
      /\ (GetStatusOperadores /\ Truthy(state.cache.data) /\ now - state.cache.ts < 15000)
           => /\ \A e \in resp' : e.code = 200 /\ e.body = state.cache.data
              /\ resp' # {}
              /\ UNCHANGED <<runs, reqs, state>>
    ]_vars

\* a GET was answered from a fresh entry
C7_Witness == \E e \in resp : e.kind = "hit" /\ e.body \in StatusPayloads

\* a step in which updateStatusOperadores returns from its catch block
FailedRefresh == \E e \in StatusReturns(resp') : e.body = "error"

(* C8: backoff monotonicity.  Over consecutive failed status refreshes the   *)
(* delay nextAllowedAt - now that increaseBackoff sets never decreases and   *)
(* never exceeds 300 s.                                                      *)
C8_BackoffMonotone ==
  [][ FailedRefresh =>
        /\ state'.nextAllowedAt - now' <= 300 * 1000
        /\ state'.nextAllowedAt - now' >= delaySec * 1000
        /\ state.failCount >= 1 => delaySec >= 15
    ]_vars

\* a refresh failed with failCount at its cap: the delay is the longest one
C8_Witness ==
  /\ \E e \in StatusReturns(resp) : e.body = "error"
  /\ state.failCount = 6
  /\ state.nextAllowedAt - now = 300000
  /\ now >= Epoch + 765000

(* C9 as stated: after a failed status refresh failCount is incremented,     *)
(* capped at 6, and nextAllowedAt = now + min(15 s * 2^failCount, 300 s)     *)
(* with failCount the value after the increment.                             *)
C9_DelayDoublesFromIncremented ==
  [][ FailedRefresh =>
        /\ state'.failCount = Min(state.failCount + 1, 6)
        /\ state'.nextAllowedAt = now' + 1000 * Min(15 * Pow2(state'.failCount), 300)
    ]_vars

(* C9 amended: after a failed status refresh failCount is incremented,       *)
(* capped at 6, and nextAllowedAt = now + min(15 s * 2^(failCount - 1),      *)
(* 300 s) with failCount the value after the increment: the first failure    *)
(* waits 15 s.                                                               *)
C9_DelayDoublesFromFirst ==
  [][ FailedRefresh =>
        /\ state'.failCount = Min(state.failCount + 1, 6)
        /\ state'.nextAllowedAt = now' + 1000 * Min(15 * Pow2(state'.failCount - 1), 300)
    ]_vars

\* the third consecutive refresh failed: 60 s of backoff
C9_Witness ==
  /\ \E e \in StatusReturns(resp) : e.body = "error"
  /\ state.failCount = 3
  /\ state.nextAllowedAt = now + 60000

(* C10: every updateStatusOperadores run that starts and returns without an  *)
(* exception leaves failCount = 0 and nextAllowedAt = 0, whatever failCount  *)
(* was before and whichever return path it takes.                            *)
C10_CompletedRunResetsBackoff ==
  [][ (\E e \in StatusReturns(resp') : e.body # "error")
        => state'.failCount = 0 /\ state'.nextAllowedAt = 0
    ]_vars

(* C11: while now < nextAllowedAt a scheduler tick and a forced POST         *)
(* /api/status/refresh are skipped with reason backoff, start no run and     *)
(* leave failCount, nextAllowedAt, isFetching and the status cache unchanged;*)
(* the update a GET triggers is skipped too: no run starts and the state is  *)
(* the one the GET itself left (its payload cached).                         *)
C11_SkippedWhileBackoff ==
  [][ (unit = "status" /\ now < state.nextAllowedAt) =>
        /\ (StatusSchedulerTick \/ StatusRefreshRoute) =>
             /\ UNCHANGED <<state, runs, reqs, delaySec>>
             /\ \A e \in resp' : e.body = "skipped:backoff"
             /\ resp' # {}
        /\ \A h \in Reqs, p \in StatusPayloads :
             GetStatusQueryDone(h, p) =>
               /\ UNCHANGED <<runs, delaySec>>
               /\ state' = [state EXCEPT !.cache = [data |-> p, ts |-> reqs[h].t]]
    ]_vars

\* a forced refresh was skipped during the backoff, with a payload in the cache
C11_Witness ==
  /\ unit = "status"
  /\ now < state.nextAllowedAt
  /\ state.cache.data # Null
  /\ \E e \in resp : e.key = "route" /\ e.body = "skipped:backoff"


(* C12: when no upstream status call of a refresh yields a status (every     *)
(* fetchArgusForRamal returned null after its retries), the refresh counts   *)
(* as failed: failCount is incremented, capped at 6, and nextAllowedAt is    *)
(* moved into the future.                                                    *)
C12_AllUpstreamFailedBacksOff ==
  [][ \A r \in Runs :
        StatusArgusDone(r, FALSE, FALSE) =>
          /\ state'.failCount = Min(state.failCount + 1, 6)
          /\ state'.nextAllowedAt > now'
    ]_vars


(* C13: 403 latch.  Once _argusAuthFailed is set it stays set whatever       *)
(* happens (refreshes, GETs, debug clears); every fetchArgusForRamal call    *)
(* started afterwards returns null without any network request, and every    *)
(* later updateStatusOperadores call (scheduler, forced refresh, the one a   *)
(* GET triggers) starts no run.                                              *)
C13_Latch403 ==
  [][ state.argusAuthFailed =>
        /\ state'.argusAuthFailed
        /\ \A c \in Calls, ramal \in {"", "1001"} :
             FetchArgusForRamal(c, ramal) =>
               /\ resp' = {Returned(c, "fetch", Null)}
               /\ fetch'[c].pc = "idle" /\ fetch'[c].requests = 0
        /\ (StatusSchedulerTick \/ StatusRefreshRoute) =>
             /\ UNCHANGED <<runs, state>>
             /\ \E e \in resp' : e.body \in {"skipped:backoff", "skipped:in-flight",
                                             "skipped:argus-auth-failed"}
        /\ \A h \in Reqs, p \in StatusPayloads :
             GetStatusQueryDone(h, p) => UNCHANGED runs
    ]_vars

\* a call started after a 403 returned null without a network request while
\* another call, started before the 403, is still under way
C13_Witness ==
  /\ unit = "fetch"
  /\ state.argusAuthFailed
  /\ \E e \in resp : e.key = "fetch" /\ e.body = Null /\ fetch[e.run].requests = 0
  /\ \E c \in Calls : fetch[c].pc # "idle"


(* C14: an answer HTTP 400, or HTTP 200 whose body carries a codStatus other *)
(* than the success code 1, makes fetchArgusForRamal return null at once:    *)
(* no sleep, no further attempt, and one network request in all when it is   *)
(* the answer to the first attempt.                                          *)
C14_NoRetryOn400OrNonSuccess ==
  [][ \A c \in Calls, a \in FetchAnswers :
        (FetchAxiosDone(c, a)
           /\ (a.status = 400 \/ (a.status = 200 /\ a.cod \in {"0", "2"})))
        => /\ resp' = {Returned(c, "fetch", Null)}
           /\ fetch'[c].pc = "idle"
           /\ fetch'[c].waits = fetch[c].waits
           /\ fetch'[c].requests = fetch[c].requests + 1
           /\ fetch[c].attempt = 0 => fetch'[c].requests = 1
    ]_vars


\* an answer HTTP >= 500, a network error or a timeout
FetchTransient(a) == a.status >= 500 \/ a.status = 0

(* C15: on HTTP >= 500, a network error or a timeout fetchArgusForRamal      *)
(* sleeps 400 ms times the number of the attempt and tries again while fewer *)
(* than 3 requests were made, and returns null after the third; it never     *)
(* makes more than 3 requests, its sleeps are 400 ms then 800 ms, and a      *)
(* timeout takes the very step a network error takes.                        *)
C15_BoundedRetry ==
  [][ /\ \A c \in Calls :
           /\ fetch'[c].requests <= 2 + 1
           /\ Len(fetch'[c].waits) <= 2
           /\ \A i \in 1..Len(fetch'[c].waits) : fetch'[c].waits[i] = 400 * i
      /\ \A c \in Calls, a \in FetchAnswers :
           (FetchAxiosDone(c, a) /\ FetchTransient(a)) =>
             IF fetch[c].requests < 2
             THEN /\ fetch'[c].pc = "sleep"
                  /\ fetch'[c].waits = Append(fetch[c].waits, 400 * (fetch[c].requests + 1))
                  /\ resp' = {}
             ELSE /\ fetch'[c].pc = "idle"
                  /\ fetch'[c].requests = 3
                  /\ resp' = {Returned(c, "fetch", Null)}
      /\ \A c \in Calls :
           FetchAxiosDone(c, [status |-> 0, cod |-> "timeout"])
             <=> FetchAxiosDone(c, [status |-> 0, cod |-> "error"])
    ]_vars

\* a call gave up after three requests that timed out or failed
C15_Witness ==
  \E e \in resp :
    /\ e.key = "fetch" /\ e.body = Null
    /\ fetch[e.run].requests = 3
    /\ fetch[e.run].waits = <<400, 800>>


\* the positions of the candidates whose lowercase form is a column
MatchingPositions ==
  {i \in 1..Len(call.candidates) :
     (IF call.candidates[i] = "Status" THEN "status" ELSE call.candidates[i])
       \in call.colsSet}

(* C16: findFirst returns the candidate at the first position whose lowercase*)
(* form is in the column set, as given (not lowercased), and null when there *)
(* is none; for columns {status_id, ativo} and candidates [Status, ativo,    *)
(* situacao] it returns ativo.                                               *)
C16_FindFirst ==
  (unit = "findFirst" /\ call.out # "unset") =>
    /\ IF MatchingPositions = {} THEN call.out = Null
       ELSE \E i \in MatchingPositions :
              /\ \A j \in MatchingPositions : i <= j
              /\ call.out = call.candidates[i]
    /\ (call.colsSet = {"status_id", "ativo"}
          /\ call.candidates = <<"Status", "ativo", "situacao">>) => call.out = "ativo"

\* findFirst passed over a candidate that is no column and over none of the
\* two that are
C16_Witness ==
  /\ unit = "findFirst"
  /\ call.colsSet = {"status", "ativo"}
  /\ call.candidates = <<"situacao", "Status", "ativo">>
  /\ call.out = "Status"


(* C17: whatever columns detectColumns found in the two tables, no query of  *)
(* getStatusOperadores or updateStatusOperadores is refused by the database: *)
(* the GET builds its payload and the update runs, every query referring     *)
(* only to columns of tables it selects from.                                *)
C17_NoSchemaFailure ==
  (unit = "queries" /\ call.done) =>
    /\ call.out.get = "payload"
    /\ call.out.update # "throws"
    /\ QueryValid(GetMainQuery(call.colabCols, call.statusCols),
                  call.colabCols, call.statusCols)
    /\ UpdateSkipsRamais(call.colabCols)
         \/ QueryValid(UpdateRamaisQuery(call.colabCols), call.colabCols, call.statusCols)


(* C18: detectColumns is memoized per table: once a call for a table has     *)
(* completed and stored its column set in _colsCache (the empty set of a     *)
(* failed probe included), the entry is never cleared and never replaced,     *)
(* so that every later call, which answers from the entry without a query,   *)
(* returns the set of that first completed call.                             *)
C18_MemoKeepsFirstCompleted ==
  [][\A t \in {TABELA_COLAB, TABELA_STATUS} :
       state.colsCache[t] # Null => state'.colsCache[t] = state.colsCache[t]]_vars


(* C19: the result of updateRanking lists at most 5 sellers of the sales map,*)
(* each once and with its amount, in non-increasing order of amount; no      *)
(* seller left out has a larger amount than a listed one; sellers with equal *)
(* amounts keep the insertion order of the sales map; posicao is 1..k in     *)
(* list order.                                                               *)
C19_TopFiveOrdered ==
  (unit = "rankingSort" /\ call.done) =>
    LET res   == call.out
        sales == call.salesMap
        k     == Len(res)
        ids   == {res[i].id : i \in 1..k}
    IN /\ k <= 5
       /\ k = Min(5, Len(sales))
       /\ \A i \in 1..k :
            /\ res[i].id \in 1..Len(sales)
            /\ res[i].valorVendido = sales[res[i].id]
            /\ res[i].posicao = i
       /\ \A i, j \in 1..k :
            i < j => /\ res[i].id # res[j].id
                     /\ res[i].valorVendido >= res[j].valorVendido
                     /\ (res[i].valorVendido = res[j].valorVendido
                           => res[i].id < res[j].id)
       /\ \A x \in (1..Len(sales)) \ ids :
            \A i \in 1..k :
              /\ sales[x] <= res[i].valorVendido
              /\ (sales[x] = res[i].valorVendido => res[i].id < x)

\* more than five sellers, a tie inside the list and a tie across its end
C19_Witness ==
  /\ unit = "rankingSort"
  /\ call.done
  /\ Len(call.salesMap) > 5
  /\ Len(call.out) = 5
  /\ \E i \in 1..4 : call.out[i].valorVendido = call.out[i + 1].valorVendido
  /\ \E x \in 1..Len(call.salesMap) :
       /\ \A i \in 1..5 : call.out[i].id # x
       /\ call.salesMap[x] = call.out[5].valorVendido
  /\ call.out[1].id # 1


(* C20: persistence is in the background: when updateRanking returns the     *)
(* result it computed, that result is cached and answered to the waiting     *)
(* requests while saveRankingToTable is still pending; and when the save     *)
(* ends, failing or committing, the cache, the run, the requests and the     *)
(* responses are as they were, so a failed save leaves what a successful one *)
(* leaves.                                                                   *)
C20_SaveNeverChangesResult ==
  [][/\ \A r \in Runs :
          (unit = "ranking" /\ runs[r].pc = "fotos" /\ runs'[r].pc # "fotos") =>
            /\ [key |-> runs[r].key, rows |-> runs[r].rows] \in saves'
            /\ rankingCacheMap'[runs[r].key].data = runs[r].rows
            /\ persisted' = persisted
            /\ \A h \in Reqs :
                 (reqs[h].pc = "waiting" /\ reqs[h].run = r) =>
                   /\ reqs'[h].pc # "waiting"
                   /\ Response(reqs[h], RankingResponseBody(reqs[h], runs[r].rows)) \in resp'
     /\ (unit = "ranking" /\ saves' # saves /\ saves' \subseteq saves) =>
          /\ rankingCacheMap' = rankingCacheMap
          /\ runs' = runs
          /\ reqs' = reqs
          /\ resp' = {}]_vars

\* a save has failed: nothing is pending, the rows cached for an empresa are
\* computed ones and the table holds none for it
C20_Witness ==
  /\ unit = "ranking"
  /\ saves = {}
  /\ \E k \in DOMAIN rankingCacheMap :
       /\ rankingCacheMap[k].data \in Rankings
       /\ persisted[k] = EmptyArr


(* C21: saveRankingToTable is atomic: once a call has returned, the rows of  *)
(* the empresa the table holds are the rows from before the call or the rows *)
(* of the new ranking, and the transaction the call began, if it began one,  *)
(* has been committed or rolled back, also when the delete, an insert or the *)
(* commit failed.                                                            *)
C21_SaveAtomic ==
  (unit = "saveTx" /\ call.pc = "done") =>
    /\ call.table \in {call.before, call.rows}
    /\ call.tx \in {"none", "committed", "rolledback"}


(* C22: at every time, for every entry of a CacheService: get returns the    *)
(* stored value exactly when has returns true, and exactly when the cleanup  *)
(* sweep would keep the entry; the time expiresAt itself included.           *)
C22_FreshnessAgrees ==
  unit = "cacheService" =>
    \A k \in CacheKeys :
      call.cache[k] # NoEntry =>
        /\ (CacheGet(call.cache[k], call.t) = call.cache[k].value)
             <=> CacheHas(call.cache[k], call.t)
        /\ CacheHas(call.cache[k], call.t) <=> CacheCleanupKeeps(call.cache[k], call.t)

(* C23: the metrics of a CacheService follow every operation: hits + misses  *)
(* is the number of get calls, sets the number of set calls, the eviction    *)
(* counter (deletes) the number of entries taken out of the Map by delete,   *)
(* by the expiry get finds, by the cleanup sweep and by clear, and size the  *)
(* number of entries stored.                                                 *)
C23_MetricsTrackOperations ==
  unit = "cacheService" =>
    /\ call.metrics.hits + call.metrics.misses = call.gets
    /\ call.metrics.sets = call.setCalls
    /\ call.metrics.deletes = call.removed
    /\ call.metrics.size = CacheSize(call.cache)


(* C24: no clear operation takes away or resets a cache entry while a        *)
(* refresh for that entry is in flight: when POST /_debug/clear-caches or a  *)
(* per-cache clear route acts, no entry it clears is marked as fetching.     *)
C24_ClearSparesInFlight ==
  [][/\ RankingClearCaches =>
          \A k \in DOMAIN rankingCacheMap : ~rankingCacheMap[k].isFetching
     /\ EmpresasClearCaches => ~empresasCache.isFetching
     /\ StatusDebugClear => ~state.isFetching]_vars


(* C25: once a manual clear of the status, ranking or empresas cache has     *)
(* reported success, that cache holds no data, so that no later GET is       *)
(* answered from the value cached before the clear.                          *)
C25_ClearedCacheHoldsNoData ==
  [][/\ StatusDebugClear => ~Truthy(state'.cache.data)
     /\ EmpresasClearCaches => ~Truthy(empresasCache'.data)
     /\ RankingClearCaches => rankingCacheMap' = EmptyMap]_vars


(* C26: with DEBUG_TOKEN configured, a request to a cache-clear,             *)
(* cache-inspection or forced-refresh route that carries the token nowhere   *)
(* is answered 401 and its handler, which reads or changes the cache and     *)
(* refresh state, does not run.                                              *)
C26_AdminRoutesRequireToken ==
  (/\ unit = "routes"
   /\ call.done
   /\ Truthy(call.debugToken)
   /\ call.req.xDebugToken # call.debugToken
   /\ call.req.queryToken # call.debugToken
   /\ call.req.authorization \notin {call.debugToken, "Bearer " \o call.debugToken})
    => (call.out.status = 401 /\ ~call.out.handled)


\* the operators whose status matches the in-call, paused or free patterns
LoggedOperators(operadores) ==
  Cardinality({n \in 1..Len(operadores) :
                 \E i \in 0..2 : StatusConfigMatch(i, operadores[n])})

\* p is min(100, round(logged / total * 100)), halves rounded up, and 0 when
\* total is 0
IsRoundedPercent(p, logged, total) ==
  IF total = 0 THEN p = 0
  ELSE \/ p = 100 /\ 2 * 100 * logged + total >= 2 * 100 * total
       \/ /\ p \in 0..99
          /\ -total < 2 * (p * total - 100 * logged)
          /\ 2 * (p * total - 100 * logged) <= total

(* C27: the logged-in percentage of the dashboard is                         *)
(* min(100, round(logged / totalActive * 100)), where logged is the number   *)
(* of operators whose status matches the in-call, paused or free patterns,   *)
(* and is 0 when totalActive is 0.                                           *)
C27_PercentOfMatchingOperators ==
  (unit = "percent" /\ call.done) =>
    IsRoundedPercent(call.out, LoggedOperators(call.operadores), call.totalActive)

(* C27, as the dashboard computes it: logged is the sum of the sizes of the  *)
(* in-call, paused and free groups (an operator matching two patterns is in  *)
(* two groups), and when that sum is 0 the logged count of the API payload   *)
(* takes its place; the percentage is min(100, round(logged / totalActive *  *)
(* 100)) and 0 when totalActive is 0; 3 logged of 10 active give 30.         *)
C27_PercentOfGroupsOrApi ==
  (unit = "percent" /\ call.done) =>
    LET groups == LogadosCalc(call.operadores)
        logged == IF groups > 0 THEN groups ELSE call.apiLogados
    IN /\ IsRoundedPercent(call.out, logged, call.totalActive)
       /\ (logged = 3 /\ call.totalActive = 10) => call.out = 30

\* 3 logged operators of 10 active: 30
C27_Witness ==
  /\ unit = "percent"
  /\ call.done
  /\ LoggedOperators(call.operadores) = 3
  /\ LogadosCalc(call.operadores) = 3
  /\ call.totalActive = 10
  /\ call.out = 30


(* C28: fetchArgusData is single-flight: while a request with its retries is *)
(* in progress, a further call that is not answered from the cache starts no *)
(* upstream request and joins the queue; when the call in progress settles,  *)
(* it and every queued caller get the same result or the same error, and the *)
(* queue is empty whenever no fetch is in progress.                          *)
C28_SingleFlight ==
  [][unit = "argus" =>
       /\ \A force \in BOOLEAN :
            (argus.isFetching /\ FetchArgusData(force)) =>
              /\ argus'.isFetching
              /\ argus'.pc = argus.pc
              /\ argus'.attempt = argus.attempt
              /\ \/ argus'.queue = argus.queue + 1 /\ resp' = {}
                 \/ /\ ~force
                    /\ argus'.queue = argus.queue
                    /\ resp' = {Returned(0, "cached", CacheGet(argus.cache, now))}
       /\ (argus.isFetching /\ ~argus'.isFetching) =>
            \E v \in ArgusPayloads \cup {"error"} :
              resp' = {Returned(0, "own", v)}
                        \cup {Returned(i, "queued", v) : i \in 1..argus.queue}
       /\ ~argus'.isFetching => argus'.queue = 0]_vars

\* two callers waited through a retry and were settled with the answer of
\* the call in progress
C28_Witness ==
  /\ unit = "argus"
  /\ ~argus.isFetching
  /\ \E v \in ArgusPayloads :
       {Returned(0, "own", v), Returned(1, "queued", v), Returned(2, "queued", v)}
         \subseteq resp


(* C29: at most one body of updateStatusOperadores (collaborator read, Argus *)
(* batch, upsert) executes at a time, whatever the interleaving of scheduler *)
(* ticks, GET-triggered updates, POST /api/status/refresh and the debug      *)
(* clear routes.                                                             *)
C29_OneUpdateBody ==
  unit = "status" => Cardinality({r \in Runs : runs[r].pc \notin {"idle", "done"}}) <= 1


(* C30: in every reachable state of the status controller failCount is       *)
(* between 0 and 6, and nextAllowedAt is 0 exactly when failCount is 0.      *)
C30_BackoffStateConsistent ==
  unit = "status" =>
    /\ state.failCount \in 0..MaxFailCount
    /\ (state.nextAllowedAt = 0) <=> (state.failCount = 0)

\* the failure count at its cap, after the failure that would have passed it
C30_Witness ==
  /\ unit = "status"
  /\ state.failCount = MaxFailCount
  /\ state.nextAllowedAt > now
  /\ \E e \in resp : e.kind = "return" /\ e.body = "error"


(* C31: processBatch never has more than concurrency item functions running  *)
(* at once, calls the function of every item exactly once, and returns the   *)
(* values of the items whose function gave one, in the order of the items:   *)
(* an item whose function rejects or returns null is left out and the items  *)
(* after it are processed all the same.                                      *)
C31_BatchBoundedComplete ==
  unit = "batch" =>
    /\ Cardinality(call.running) <= call.concurrency
    /\ \A n \in 1..Len(call.items) : call.started[n] <= 1
    /\ call.pc = "done" =>
         /\ \A n \in 1..Len(call.items) : call.started[n] = 1
         /\ call.out = BatchKept(call.items, 1, Len(call.items))

\* a batch of several chunks has ended: an item of the first chunk rejected,
\* one returned null, a later one gave a value
C31_Witness ==
  /\ unit = "batch"
  /\ call.pc = "done"
  /\ Len(call.items) > 2 * call.concurrency
  /\ call.items[1] = "reject"
  /\ "null" \in {call.items[n] : n \in 1..Len(call.items)}
  /\ call.items[Len(call.items)] = "value"
  /\ call.out # <<>>


\* the ids the k-th lookup of the call found
FotosFoundBy(k) == IF k <= Len(call.lookups) THEN DOMAIN call.lookups[k].ans.map ELSE {}

RankingMarked(k) == k \in DOMAIN rankingCacheMap /\ rankingCacheMap[k].isFetching

(* C33: when every DB and HTTP call a refresh awaits returns or fails, each  *)
(* in-flight mark is eventually cleared: isFetching of a ranking entry, of   *)
(* the empresas cache, of the status state and of argusService, each leads   *)
(* to a state where that mark is false, by success or by failure.            *)
C33_MarkEventuallyCleared ==
  /\ \A k \in Empresas : RankingMarked(k) ~> ~RankingMarked(k)
  /\ empresasCache.isFetching ~> ~empresasCache.isFetching
  /\ state.isFetching ~> ~state.isFetching
  /\ argus.isFetching ~> ~argus.isFetching

\* a status update that failed has cleared the mark it had set
C33_Witness ==
  /\ unit = "status"
  /\ ~state.isFetching
  /\ state.failCount > 0
  /\ \E e \in resp : e.kind = "return"


(* C34: a getStatusOperadores whose queries were under way when a successful *)
(* updateStatusOperadores invalidated state.cache does not store the payload *)
(* of those queries into state.cache afterwards.                             *)
C34_NoStaleStoreAfterInvalidate ==
  [][\A h \in Reqs, outcome \in StatusPayloads :
       (reqs[h].seen = "invalidated" /\ GetStatusQueryDone(h, outcome)) =>
          state'.cache.data # outcome]_vars


(* C35: the timestamp of a cache entry never decreases, except when a clear  *)
(* route or the invalidation of updateStatusOperadores acts: in every step   *)
(* the ts of each ranking entry that stays in the map, of the empresas cache *)
(* and of state.cache is at least what it was, whichever refresh writes.     *)
C35_TimestampNeverDecreases ==
  [][/\ ~RankingClearCaches =>
          \A k \in (DOMAIN rankingCacheMap) \cap (DOMAIN rankingCacheMap') :
            rankingCacheMap'[k].ts >= rankingCacheMap[k].ts
     /\ ~EmpresasClearCaches => empresasCache'.ts >= empresasCache.ts
     /\ (\A r \in Runs : ~StatusUpsertDone(r)) => state'.cache.ts >= state.cache.ts]_vars


\* the executions of fn in progress
FnInProgress(c) == {run \in c.jobRuns : run.pc = "fn"}

(* C36: at most one execution of the fn of a job is in progress at a time;   *)
(* runJobNow called while the job is running, by a caller, a timer or        *)
(* scheduleJob, answers {ok: false, alreadyRunning: true}, invokes no fn and *)
(* leaves the metrics as they are; when a run finishes, by success or after  *)
(* the last retry failed, isRunning is false.                                *)
C36_OneExecutionPerJob ==
  [][unit = "updateService" =>
       /\ Cardinality(call'.jobRuns) <= 1
       /\ Cardinality(FnInProgress(call')) <= 1
       /\ (call.isRunning /\ (JobRunNow \/ ScheduleJob \/ \E id \in 1..MaxTimers : JobTimerFires(id))) =>
            /\ [kind |-> "runJobNow", ok |-> FALSE, alreadyRunning |-> TRUE] \in resp'
            /\ call'.jobRuns = call.jobRuns
            /\ call'.metrics = call.metrics
       /\ (\E run \in call.jobRuns : \A other \in call'.jobRuns : other.n # run.n) =>
            ~call'.isRunning]_vars

\* a run has failed after its retry and a second run of the job is under way,
\* a timer being alive
C36_Witness ==
  /\ unit = "updateService"
  /\ call.metrics.failures = 1
  /\ call.metrics.attempts = 2
  /\ call.isRunning
  /\ call.timers # {}
  /\ [kind |-> "runJobNow", ok |-> FALSE, alreadyRunning |-> TRUE] \in resp

(* C37: at most one periodic timer is alive for the status scheduler and for *)
(* a job of updateService, whatever is registered how often: a repeated      *)
(* scheduleStatusUpdater returns the timer that exists, creates none and     *)
(* calls no updateStatusOperadores; scheduleJob on a scheduled job leaves    *)
(* only the timer it creates.                                                *)
C37_OneTimerPerScheduler ==
  [][unit = "updateService" =>
       /\ Cardinality(call'.timers) <= 1
       /\ Cardinality(call'.statusTimers) <= 1
       /\ (call.schedulerId # 0 /\ ScheduleStatusUpdater) =>
            /\ resp' = {[kind |-> "scheduleStatusUpdater", id |-> call.schedulerId]}
            /\ call'.statusTimers = call.statusTimers
            /\ call'.statusCalls = call.statusCalls
       /\ ScheduleJob => call'.timers = {call'.intervalId}]_vars

\* scheduleJob has replaced the timer of a job and the status timer exists
C37_Witness ==
  /\ unit = "updateService"
  /\ call.created = 2
  /\ call.timers = {2}
  /\ call.schedulerId = 1
  /\ call.statusTimers = {1}


(* C40: for every integer percent of 0..100 the gauge lights 0 bars up to    *)
(* 24, 1 bar for 25..49, 2 for 50..74, 3 for 75..99 and 4 at 100.            *)
C40_BarsByPercent ==
  (unit = "gauge" /\ call.done) =>
    call.out = (IF call.percent <= 24 THEN 0
                ELSE IF call.percent <= 49 THEN 1
                ELSE IF call.percent <= 74 THEN 2
                ELSE IF call.percent <= 99 THEN 3
                ELSE 4)


(* C38: at most one status request of the dashboard that has not been        *)
(* aborted is outstanding at any time, under every interleaving of the poll  *)
(* timer, focus and visibility events and the completions of requests.       *)
C38_OneLiveRequest ==
  unit = "dashboard" => Cardinality({q \in call.requests : ~q.aborted}) <= 1

(* C39: after DashboardSemaforo unmounted, no step sets a poll timer and no  *)
(* step issues a status request, whatever the request that was outstanding   *)
(* at the unmount comes to.                                                  *)
C39_QuietAfterUnmount ==
  [][(unit = "dashboard" /\ call.issued > 0 /\ ~call.mounted) =>
       /\ ~call'.timer
       /\ call'.issued = call.issued]_vars

====
